---- MODULE Spec2Model ----
(***************************************************************************)
(* A model of the object-handle layer of the garbage collector             *)
(* (src/coreclr/gc/objecthandle.cpp): the handle table map (the chain of   *)
(* HandleTableMap chunks holding HandleTableBucket pointers), the          *)
(* operations that insert, remove and destroy buckets, and the GC-phase    *)
(* scans that walk the map and apply a callback to the handles of the      *)
(* primitives (handle tables) of each bucket.                              *)
(***************************************************************************)
EXTENDS Integers, Sequences, FiniteSets, TLC

(***************************************************************************)
(* Bounds.  INITIAL_HANDLE_TABLE_ARRAY_SIZE is set in handletablepriv.h,   *)
(* which is not among the sources; the model keeps its name and scales it  *)
(* down so that chunks fill up and the chain grows within a few calls.     *)
(***************************************************************************)
INITIAL_HANDLE_TABLE_ARRAY_SIZE == 2

\* GCToOSInterface::GetTotalProcessorCount(): the primitives per bucket in server mode.
TotalProcessorCount == 3

\* How many calls of Ref_InitializeHandleTableBucket the mutator threads make in all.
MaxInitCalls == 4

\* How many calls of Ref_RemoveHandleTableBucket / Ref_DestroyHandleTableBucket in all.
MaxRemoveCalls == 2

\* Handles in the table a garbage collection scans, and the objects they may refer to.
NumHandles == 1

NumObjects == 2

\* The largest number of GC worker threads (heaps): ScanContext::thread_count.
MaxThreadCount == 4

NULL == -1

\* The mutator threads that create and destroy handle table buckets.
Threads == {"t1", "t2"}

\* Bucket 0 is g_gcGlobalHandleStore->_underlyingBucket; the others are the callers'.
Buckets == 0 .. MaxInitCalls

\* Chunk 0 is the static g_HandleTableMap; the others are heap nodes (new HandleTableMap).
HeapChunks == 1 .. (MaxInitCalls \div INITIAL_HANDLE_TABLE_ARRAY_SIZE + Cardinality(Threads) + 1)

Chunks == {0} \cup HeapChunks

SlotRange == 0 .. (INITIAL_HANDLE_TABLE_ARRAY_SIZE - 1)

VARIABLES
    serverHeap,        \* IsServerHeap()
    pBuckets,          \* HandleTableMap::pBuckets, per chunk: slot -> bucket or NULL
    dwMaxIndex,        \* HandleTableMap::dwMaxIndex, per chunk
    pNext,             \* HandleTableMap::pNext, per chunk
    liveChunks,        \* heap chunks allocated and not deleted
    HandleTableIndex,  \* HandleTableBucket::HandleTableIndex, per bucket
    pTable,            \* HandleTableBucket::pTable, per bucket: NULL, or cpu -> primitive
    bucketState,       \* per bucket: where it is in its life
    thr,               \* per thread: the call it is in and that call's locals
    nInit,             \* calls of Ref_InitializeHandleTableBucket begun so far
    nRemove,           \* calls of Ref_RemoveHandleTableBucket / Destroy begun so far
    handles,           \* per handle: its type, its primitive, its slot and its extra info
    handles0,          \* the handles as they were when the collection began
    promoted,          \* the objects the collector's oracle (IsPromoted) reports promoted
    thread_count,      \* ScanContext::thread_count of this collection
    phase,             \* the entry point the collector has its workers run now
    ran,               \* the workers that have returned from that entry point
    scanLog,           \* per primitive: the workers whose scan of this phase reached it
    dhc,               \* g_pDependentHandleContexts, per slot number
    dhw,               \* per worker: where it is in Ref_ScanDependentHandlesForPromotion
    pinned,            \* the objects the promote callback was given with GC_CALL_PINNED
    plan,              \* the collector's relocation plan: pre-GC address -> post-GC address
    uCount,            \* static VOLATILE(int32_t) uCount of Ref_UpdatePointers
    sync,              \* per worker: where it is in Ref_UpdatePointers, and its bDo
    nSync,             \* the calls of SyncBlockCacheWeakPtrScan in the collection
    gcs,               \* the collections that are over
    concurrent,        \* sc->concurrent of the scan contexts of the collection
    refcounted,        \* the objects GCToEEInterface::RefCountedHandleCallbacks answers true for
    bridge,            \* the bridge objects registered, and the calls made of the host
    collection,        \* condemned, maxgen and IsConcurrentGCInProgress() of the collection
    mem,               \* the allocations of Ref_Initialize: made or not, and deleted how often
    glob,              \* the global pointers, and the fields of the global bucket
    ri                 \* where the call of Ref_Initialize is, and its locals

dirVars == <<pBuckets, dwMaxIndex, pNext, liveChunks, HandleTableIndex, pTable,
             bucketState, thr, nInit, nRemove>>

\* The state of the relocation of objects.
relocVars == <<pinned, plan>>

\* The state of the workers inside Ref_UpdatePointers.
syncVars == <<uCount, sync, nSync, gcs>>

\* The state of the scans that look at sc->concurrent.
concVars == <<concurrent, refcounted, bridge, collection>>

\* The state of the call of Ref_Initialize.
startVars == <<mem, glob, ri>>

\* What pinning and relocation leave alone of the state only some specifications use.
notRelocVars == <<syncVars, concVars, startVars>>

\* What the workers inside Ref_UpdatePointers leave alone of it.
notSyncVars == <<relocVars, concVars, startVars>>

\* What the scans that look at sc->concurrent leave alone of it.
notConcVars == <<relocVars, syncVars, startVars>>

\* The state that only some of the specifications use.
extVars == <<relocVars, syncVars, concVars, startVars>>

gcVars == <<handles, handles0, promoted, thread_count, phase, ran, scanLog, dhc, dhw, extVars>>

vars == <<serverHeap, pBuckets, dwMaxIndex, pNext, liveChunks, HandleTableIndex, pTable,
          bucketState, thr, nInit, nRemove,
          handles, handles0, promoted, thread_count, phase, ran, scanLog, dhc, dhw,
          pinned, plan, uCount, sync, nSync, gcs, concurrent, refcounted, bridge,
          collection, mem, glob, ri>>

----------------------------------------------------------------------------
(* getNumberOfSlots *)

getNumberOfSlots == IF ~serverHeap THEN 1 ELSE TotalProcessorCount

CpuRange == 0 .. (getNumberOfSlots - 1)

\* A primitive (HHANDLETABLE) is modelled by what the directory code sets in it:
\* the table index given by HndSetHandleTableIndex.  NoIndex: not set yet.
NoIndex == -2

Destroyed == -3

IdleThread == [pc |-> "idle", op |-> "none", bucket |-> NULL, walk |-> NULL, last |-> NULL,
               offset |-> 0, i |-> 0, newMap |-> NULL, cpu |-> 0, index |-> 0,
               startChunks |-> 0, casFailed |-> FALSE, result |-> FALSE]

EmptySlots == [s \in SlotRange |-> NULL]

----------------------------------------------------------------------------
(* The chain as a reader sees it. *)

RECURSIVE ChainFrom(_, _)
\* The chunks reached from chunk c by following pNext, at most n of them.
ChainFrom(c, n) ==
    IF c = NULL \/ n = 0 THEN <<>> ELSE <<c>> \o ChainFrom(pNext[c], n - 1)

Chain == ChainFrom(0, Cardinality(Chunks) + 1)

ChainSet == {Chain[k] : k \in 1 .. Len(Chain)}

\* Whether every slot of every chunk of the chain is occupied.
DirectoryFull == \A c \in ChainSet : \A s \in SlotRange : pBuckets[c][s] # NULL

----------------------------------------------------------------------------
(* Ref_Initialize: the state it leaves when it returns true. *)

InitDirectory ==
    /\ pBuckets = [c \in Chunks |-> IF c = 0 THEN [EmptySlots EXCEPT ![0] = 0] ELSE EmptySlots]
    /\ dwMaxIndex = [c \in Chunks |-> IF c = 0 THEN INITIAL_HANDLE_TABLE_ARRAY_SIZE ELSE 0]
    /\ pNext = [c \in Chunks |-> NULL]
    /\ liveChunks = {}
    /\ HandleTableIndex = [b \in Buckets |-> 0]
    /\ pTable = [b \in Buckets |-> IF b = 0 THEN [n \in CpuRange |-> 0] ELSE <<>>]
    /\ bucketState = [b \in Buckets |-> IF b = 0 THEN "installed" ELSE "unused"]
    /\ thr = [t \in Threads |-> IdleThread]
    /\ nInit = 0
    /\ nRemove = 0

\* No object is being relocated.
NoRelocation ==
    /\ pinned = {}
    /\ plan = <<>>

\* No worker is inside Ref_UpdatePointers.
NoSync ==
    /\ uCount = 0
    /\ sync = <<>>
    /\ nSync = 0
    /\ gcs = 0

NoBridges == [registered |-> {}, triggered |-> {}]

\* The collection is not a concurrent one, and has nothing to do with the host.
NoConcurrency ==
    /\ concurrent = FALSE
    /\ refcounted = {}
    /\ bridge = NoBridges
    /\ collection = <<>>

\* Ref_Initialize is not followed.
NoStart ==
    /\ mem = <<>>
    /\ glob = <<>>
    /\ ri = <<>>

\* Nothing of what only some specifications follow is under way.
NoExtras == NoRelocation /\ NoSync /\ NoConcurrency /\ NoStart

\* No collection is running while the directory is being changed.
NoCollection ==
    /\ NoExtras
    /\ handles = <<>>
    /\ handles0 = <<>>
    /\ promoted = {}
    /\ thread_count = 1
    /\ phase = 0
    /\ ran = {}
    /\ scanLog = <<>>
    /\ dhc = <<>>
    /\ dhw = <<>>

Init ==
    /\ serverHeap = TRUE
    /\ InitDirectory
    /\ NoCollection

----------------------------------------------------------------------------
(* Ref_InitializeHandleTableBucket *)

\* Lines 757-782: the locals, the primitive array and its primitives.
InitBucket_Begin(t) ==
    /\ thr[t].pc = "idle"
    /\ nInit < MaxInitCalls
    /\ LET b == nInit + 1 IN
        /\ bucketState[b] = "unused"
        /\ nInit' = nInit + 1
        /\ pTable' = [pTable EXCEPT ![b] = [n \in CpuRange |-> NoIndex]]
        /\ bucketState' = [bucketState EXCEPT ![b] = "initializing"]
        /\ thr' = [thr EXCEPT ![t] = [IdleThread EXCEPT !.pc = "scan", !.op = "init",
                        !.bucket = b, !.walk = 0, !.last = NULL, !.offset = 0, !.i = 0,
                        !.startChunks = IF DirectoryFull THEN Len(Chain) ELSE 0]]
    /\ UNCHANGED <<gcVars, serverHeap, pBuckets, dwMaxIndex, pNext, liveChunks, HandleTableIndex, nRemove>>

SetIndices_FirstPrimitiveOnly(t, k) ==
    /\ pTable' = [pTable EXCEPT ![thr[t].bucket][0] = k]
    /\ HandleTableIndex' = [HandleTableIndex EXCEPT ![thr[t].bucket] = k]

\* The indices the bucket and its primitives get before the compare-exchange (lines 789-792).
SetIndices(t, k) ==
    /\ pTable' = [pTable EXCEPT ![thr[t].bucket] = [n \in CpuRange |-> k]]
    /\ HandleTableIndex' = [HandleTableIndex EXCEPT ![thr[t].bucket] = k]

\* Lines 787-792: read slot i of the chunk; a free slot is prepared for, a taken one skipped.
InitBucket_ScanSlot(t) ==
    /\ thr[t].pc = "scan"
    /\ thr[t].walk # NULL
    /\ thr[t].i < INITIAL_HANDLE_TABLE_ARRAY_SIZE
    /\ IF pBuckets[thr[t].walk][thr[t].i] = NULL
       THEN /\ SetIndices(t, thr[t].i + thr[t].offset)
            /\ thr' = [thr EXCEPT ![t].pc = "cas"]
       ELSE /\ thr' = [thr EXCEPT ![t].i = @ + 1]
            /\ UNCHANGED <<pTable, HandleTableIndex>>
    /\ UNCHANGED <<gcVars, serverHeap, pBuckets, dwMaxIndex, pNext, liveChunks, bucketState, nInit, nRemove>>

CompareExchangePointer_Blind(destination, exchange, comparand) == exchange

\* What Interlocked::CompareExchangePointer leaves in a destination that held the value
\* destination; the call returns that value.
CompareExchangePointer(destination, exchange, comparand) ==
    IF destination = comparand THEN exchange ELSE destination

CasSucceeded_Always(returned) == TRUE

\* The test of the value the compare-exchange returned (line 793): == 0.
CasSucceeded(returned) == returned = NULL

\* Line 793-797: Interlocked::CompareExchangePointer(&walk->pBuckets[i], result, NULL).
InitBucket_Cas(t) ==
    /\ thr[t].pc = "cas"
    /\ pBuckets' = [pBuckets EXCEPT ![thr[t].walk][thr[t].i] =
                        CompareExchangePointer(@, thr[t].bucket, NULL)]
    /\ IF CasSucceeded(pBuckets[thr[t].walk][thr[t].i])
       THEN /\ bucketState' = [bucketState EXCEPT ![thr[t].bucket] = "installed"]
            /\ thr' = [thr EXCEPT ![t].pc = "done", ![t].result = TRUE]
       ELSE /\ thr' = [thr EXCEPT ![t].pc = "scan", ![t].i = @ + 1, ![t].casFailed = TRUE]
            /\ UNCHANGED bucketState
    /\ UNCHANGED <<gcVars, serverHeap, dwMaxIndex, pNext, liveChunks, HandleTableIndex, pTable, nInit, nRemove>>

\* Lines 800-802: the chunk is exhausted; go to the next one.
InitBucket_NextChunk(t) ==
    /\ thr[t].pc = "scan"
    /\ thr[t].walk # NULL
    /\ thr[t].i = INITIAL_HANDLE_TABLE_ARRAY_SIZE
    /\ thr' = [thr EXCEPT ![t].last = thr[t].walk,
                          ![t].offset = dwMaxIndex[thr[t].walk],
                          ![t].walk = pNext[thr[t].walk],
                          ![t].i = 0]
    /\ UNCHANGED <<gcVars, serverHeap, pBuckets, dwMaxIndex, pNext, liveChunks, HandleTableIndex, pTable,
                   bucketState, nInit, nRemove>>

NewMaxIndex_Same(last) == dwMaxIndex[last]

\* The dwMaxIndex a new chunk gets (line 820).
NewMaxIndex(last) == dwMaxIndex[last] + INITIAL_HANDLE_TABLE_ARRAY_SIZE

\* Lines 807-823: no free slot; allocate and fill in a new chunk.
InitBucket_NewMap(t) ==
    /\ thr[t].pc = "scan"
    /\ thr[t].walk = NULL
    /\ \E m \in HeapChunks :
        /\ m \notin liveChunks
        /\ \A m2 \in HeapChunks : m2 \notin liveChunks => m <= m2
        /\ liveChunks' = liveChunks \cup {m}
        /\ pBuckets' = [pBuckets EXCEPT ![m] = EmptySlots]
        /\ dwMaxIndex' = [dwMaxIndex EXCEPT ![m] = NewMaxIndex(thr[t].last)]
        /\ pNext' = [pNext EXCEPT ![m] = NULL]
        /\ thr' = [thr EXCEPT ![t].pc = "link", ![t].newMap = m]
    /\ UNCHANGED <<gcVars, serverHeap, HandleTableIndex, pTable, bucketState, nInit, nRemove>>

DiscardNewMap_Leak(m) ==
    /\ UNCHANGED <<liveChunks, pBuckets, dwMaxIndex>>

\* What the thread that loses the compare-exchange on last->pNext does with its chunk
\* (lines 827-829): delete [] newMap->pBuckets; delete newMap.
DiscardNewMap(m) ==
    /\ liveChunks' = liveChunks \ {m}
    /\ pBuckets' = [pBuckets EXCEPT ![m] = EmptySlots]
    /\ dwMaxIndex' = [dwMaxIndex EXCEPT ![m] = 0]

\* Lines 825-832: Interlocked::CompareExchangePointer(&last->pNext, newMap, NULL), then
\* walk = last->pNext; offset = last->dwMaxIndex.
InitBucket_Link(t) ==
    /\ thr[t].pc = "link"
    /\ LET last == thr[t].last
           m == thr[t].newMap IN
       IF pNext[last] = NULL
       THEN /\ pNext' = [pNext EXCEPT ![last] = CompareExchangePointer(@, m, NULL)]
            /\ thr' = [thr EXCEPT ![t].pc = "scan", ![t].walk = m, ![t].newMap = NULL,
                                  ![t].offset = dwMaxIndex[last], ![t].i = 0]
            /\ UNCHANGED <<liveChunks, pBuckets, dwMaxIndex>>
       ELSE /\ DiscardNewMap(m)
            /\ thr' = [thr EXCEPT ![t].pc = "scan", ![t].walk = pNext[last], ![t].newMap = NULL,
                                  ![t].offset = dwMaxIndex[last], ![t].i = 0]
            /\ UNCHANGED pNext
    /\ UNCHANGED <<gcVars, serverHeap, HandleTableIndex, pTable, bucketState, nInit, nRemove>>

\* The call has returned; the thread is free for its next call.
Return(t) ==
    /\ thr[t].pc = "done"
    /\ thr' = [thr EXCEPT ![t] = IdleThread]
    /\ UNCHANGED <<gcVars, serverHeap, pBuckets, dwMaxIndex, pNext, liveChunks, HandleTableIndex, pTable,
                   bucketState, nInit, nRemove>>

----------------------------------------------------------------------------
(* Ref_RemoveHandleTableBucket and Ref_DestroyHandleTableBucket *)

\* Lines 840-842 (and 869 for Destroy): the call's locals.  The caller owns the bucket:
\* no other thread is in a call on it.
Remove_Begin(t, b, op) ==
    /\ thr[t].pc = "idle"
    /\ nRemove < MaxRemoveCalls
    /\ bucketState[b] \in {"installed", "removed"}
    /\ \A u \in Threads : thr[u].bucket # b
    /\ nRemove' = nRemove + 1
    /\ thr' = [thr EXCEPT ![t] = [IdleThread EXCEPT !.pc = "rm_walk", !.op = op, !.bucket = b,
                    !.index = HandleTableIndex[b], !.walk = 0, !.offset = 0]]
    /\ UNCHANGED <<gcVars, serverHeap, pBuckets, dwMaxIndex, pNext, liveChunks, HandleTableIndex, pTable,
                   bucketState, nInit>>

\* Where the call goes once Ref_RemoveHandleTableBucket has returned.
AfterRemove(op) == IF op = "destroy" THEN "destroy" ELSE "done"

\* Whether the chunk at walk, whose first index is offset, covers index (line 846).
InWindow(walk, offset, index) == (index < dwMaxIndex[walk]) /\ (index >= offset)

Remove_Walk_Blind(t) ==
    /\ thr[t].pc = "rm_walk"
    /\ LET walk == thr[t].walk
           offset == thr[t].offset
           index == thr[t].index IN
       IF walk = NULL
       THEN thr' = [thr EXCEPT ![t].pc = AfterRemove(thr[t].op)]
       ELSE IF InWindow(walk, offset, index)
            THEN thr' = [thr EXCEPT ![t].pc = "rm_store"]
            ELSE thr' = [thr EXCEPT ![t].offset = dwMaxIndex[walk], ![t].walk = pNext[walk]]
    /\ UNCHANGED <<gcVars, serverHeap, pBuckets, dwMaxIndex, pNext, liveChunks, HandleTableIndex, pTable,
                   bucketState, nInit, nRemove>>

\* Lines 844-858: one chunk of the walk; the slot is compared with the bucket.
Remove_Walk(t) ==
    /\ thr[t].pc = "rm_walk"
    /\ LET walk == thr[t].walk
           offset == thr[t].offset
           index == thr[t].index IN
       IF walk = NULL
       THEN thr' = [thr EXCEPT ![t].pc = AfterRemove(thr[t].op)]
       ELSE IF InWindow(walk, offset, index) /\ pBuckets[walk][index - offset] = thr[t].bucket
            THEN thr' = [thr EXCEPT ![t].pc = "rm_store"]
            ELSE thr' = [thr EXCEPT ![t].offset = dwMaxIndex[walk], ![t].walk = pNext[walk]]
    /\ UNCHANGED <<gcVars, serverHeap, pBuckets, dwMaxIndex, pNext, liveChunks, HandleTableIndex, pTable,
                   bucketState, nInit, nRemove>>

Remove_Store_Skipped(t) ==
    /\ thr[t].pc = "rm_store"
    /\ bucketState' = [bucketState EXCEPT ![thr[t].bucket] = "removed"]
    /\ thr' = [thr EXCEPT ![t].pc = AfterRemove(thr[t].op)]
    /\ UNCHANGED <<gcVars, serverHeap, pBuckets, dwMaxIndex, pNext, liveChunks, HandleTableIndex, pTable, nInit, nRemove>>

\* Line 852: walk->pBuckets[index - offset] = NULL.
Remove_Store(t) ==
    /\ thr[t].pc = "rm_store"
    /\ pBuckets' = [pBuckets EXCEPT ![thr[t].walk][thr[t].index - thr[t].offset] = NULL]
    /\ bucketState' = [bucketState EXCEPT ![thr[t].bucket] = "removed"]
    /\ thr' = [thr EXCEPT ![t].pc = AfterRemove(thr[t].op)]
    /\ UNCHANGED <<gcVars, serverHeap, dwMaxIndex, pNext, liveChunks, HandleTableIndex, pTable, nInit, nRemove>>

\* Lines 870-873: HndDestroyHandleTable(pBucket->pTable[uCPUindex]), one primitive a step.
Destroy_Table(t) ==
    /\ thr[t].pc = "destroy"
    /\ thr[t].cpu < getNumberOfSlots
    /\ pTable' = [pTable EXCEPT ![thr[t].bucket][thr[t].cpu] = Destroyed]
    /\ thr' = [thr EXCEPT ![t].cpu = @ + 1]
    /\ UNCHANGED <<gcVars, serverHeap, pBuckets, dwMaxIndex, pNext, liveChunks, HandleTableIndex,
                   bucketState, nInit, nRemove>>

\* Line 874: delete [] pBucket->pTable.
Destroy_Free(t) ==
    /\ thr[t].pc = "destroy"
    /\ thr[t].cpu = getNumberOfSlots
    /\ pTable' = [pTable EXCEPT ![thr[t].bucket] = <<>>]
    /\ bucketState' = [bucketState EXCEPT ![thr[t].bucket] = "destroyed"]
    /\ thr' = [thr EXCEPT ![t].pc = "done"]
    /\ UNCHANGED <<gcVars, serverHeap, pBuckets, dwMaxIndex, pNext, liveChunks, HandleTableIndex,
                   nInit, nRemove>>

----------------------------------------------------------------------------
(* The specifications of the bucket directory. *)

InsertStep(t) ==
    \/ InitBucket_Begin(t)
    \/ InitBucket_ScanSlot(t)
    \/ InitBucket_Cas(t)
    \/ InitBucket_NextChunk(t)
    \/ InitBucket_NewMap(t)
    \/ InitBucket_Link(t)
    \/ Return(t)

RemoveStep(t) ==
    \/ \E b \in Buckets : \E op \in {"remove", "destroy"} : Remove_Begin(t, b, op)
    \/ Remove_Walk(t)
    \/ Remove_Store(t)
    \/ Destroy_Table(t)
    \/ Destroy_Free(t)

\* Threads insert, remove and destroy buckets, interleaved in every way.
Next == \E t \in Threads : InsertStep(t) \/ RemoveStep(t)

Spec == Init /\ [][Next]_vars

\* Threads only insert buckets.
NextInsert == \E t \in Threads : InsertStep(t)

SpecInsert == Init /\ [][NextInsert]_vars

----------------------------------------------------------------------------
(* Handle types, in the order of s_rgTypeFlags. *)

HNDTYPE_WEAK_SHORT == "HNDTYPE_WEAK_SHORT"

HNDTYPE_WEAK_LONG == "HNDTYPE_WEAK_LONG"

HNDTYPE_STRONG == "HNDTYPE_STRONG"

HNDTYPE_PINNED == "HNDTYPE_PINNED"

HNDTYPE_VARIABLE == "HNDTYPE_VARIABLE"

HNDTYPE_REFCOUNTED == "HNDTYPE_REFCOUNTED"

HNDTYPE_DEPENDENT == "HNDTYPE_DEPENDENT"

HNDTYPE_ASYNCPINNED == "HNDTYPE_ASYNCPINNED"

HNDTYPE_SIZEDREF == "HNDTYPE_SIZEDREF"

HNDTYPE_WEAK_NATIVE_COM == "HNDTYPE_WEAK_NATIVE_COM"

HNDTYPE_WEAK_INTERIOR_POINTER == "HNDTYPE_WEAK_INTERIOR_POINTER"

HNDTYPE_CROSSREFERENCE == "HNDTYPE_CROSSREFERENCE"

HandleTypes == {HNDTYPE_WEAK_SHORT, HNDTYPE_WEAK_LONG, HNDTYPE_STRONG, HNDTYPE_PINNED,
                HNDTYPE_VARIABLE, HNDTYPE_REFCOUNTED, HNDTYPE_DEPENDENT, HNDTYPE_ASYNCPINNED,
                HNDTYPE_SIZEDREF, HNDTYPE_WEAK_NATIVE_COM, HNDTYPE_WEAK_INTERIOR_POINTER,
                HNDTYPE_CROSSREFERENCE}

\* The dynamic types of a variable-strength handle, kept in its extra info: one bit each
\* (0x100, 0x200, 0x400, 0x800 in objecthandle.h).
VHT_WEAK_SHORT == 256

VHT_WEAK_LONG == 512

VHT_STRONG == 1024

VHT_PINNED == 2048

VariableHandleTypes == {VHT_WEAK_SHORT, VHT_WEAK_LONG, VHT_STRONG, VHT_PINNED}

\* The bits of VariableHandleTypes set in the word x.
VhtBits(x) == {b \in VariableHandleTypes : (x \div b) % 2 = 1}

\* (x & mask) != 0, for words made of the bits above.
BitsIntersect(x, mask) == VhtBits(x) \cap VhtBits(mask) # {}

Objects == 1 .. NumObjects

HandleIds == 1 .. NumHandles

Workers == 0 .. (thread_count - 1)

----------------------------------------------------------------------------
(* The collector's side of the interface. *)

\* g_theGCHeap->IsPromoted: the collector's oracle.  A null reference lies outside
\* the range being collected, which the collector reports as promoted.
IsPromoted(o) == o = NULL \/ o \in promoted

\* The scan context the collector gives worker w.
ScanContextOf(w) == [thread_number |-> w, thread_count |-> thread_count, concurrent |-> concurrent]

----------------------------------------------------------------------------
(* Which primitives a scan reaches. *)

getSlotNumber_Zero(sc) == 0

getSlotNumber_ThreadNumber(sc) == sc.thread_number

getSlotNumber(sc) == IF serverHeap THEN sc.thread_number ELSE 0

getThreadCount(sc) == sc.thread_count

RECURSIVE StrideFrom(_, _, _)
\* for ( ; uCPUindex < uCPUlimit; uCPUindex += uCPUstep): the indices visited, in order.
StrideFrom(uCPUindex, uCPUlimit, uCPUstep) ==
    IF uCPUindex < uCPUlimit
    THEN <<uCPUindex>> \o StrideFrom(uCPUindex + uCPUstep, uCPUlimit, uCPUstep)
    ELSE <<>>

\* The primitives of one bucket a worker's scan loop visits.
StrideOf(sc) == StrideFrom(getSlotNumber(sc), getNumberOfSlots, getThreadCount(sc))

RECURSIVE SlotsFrom(_, _)
\* for (i = 0; i < INITIAL_HANDLE_TABLE_ARRAY_SIZE; i++) if (walk->pBuckets[i] != NULL):
\* the buckets of chunk c from slot i on.
SlotsFrom(c, i) ==
    IF i >= INITIAL_HANDLE_TABLE_ARRAY_SIZE THEN <<>>
    ELSE (IF pBuckets[c][i] # NULL THEN <<pBuckets[c][i]>> ELSE <<>>) \o SlotsFrom(c, i + 1)

RECURSIVE WalkFrom(_, _)
\* while (walk) { ...; walk = walk->pNext; }: the buckets met from chunk c on.
WalkFrom(c, n) ==
    IF c = NULL \/ n = 0 THEN <<>> ELSE SlotsFrom(c, 0) \o WalkFrom(pNext[c], n - 1)

WalkBuckets_Stale == <<0, INITIAL_HANDLE_TABLE_ARRAY_SIZE>>

\* The buckets a walk of g_HandleTableMap meets, in order.
WalkBuckets == WalkFrom(0, Cardinality(Chunks) + 1)

RECURSIVE TablesOf(_, _, _)
\* The primitives <<bucket, cpu>> of bucket b at the indices idx[k..], skipping null ones
\* (if (hTable)).
TablesOf(b, idx, k) ==
    IF k > Len(idx) THEN <<>>
    ELSE (IF idx[k] \in DOMAIN pTable[b] /\ pTable[b][idx[k]] \notin {NULL, Destroyed}
          THEN <<(<<b, idx[k]>>)>> ELSE <<>>) \o TablesOf(b, idx, k + 1)

RECURSIVE VisitFrom(_, _, _)
VisitFrom(bs, k, idx) ==
    IF k > Len(bs) THEN <<>> ELSE TablesOf(bs[k], idx, 1) \o VisitFrom(bs, k + 1, idx)

\* The primitives the striding scan loop of worker sc hands to HndScanHandlesForGC, in order.
ScanVisits(sc) == VisitFrom(WalkBuckets, 1, StrideOf(sc))

\* The primitives a single-threaded walk (all primitives of every bucket) visits.
AllVisits == VisitFrom(WalkBuckets, 1, StrideFrom(0, getNumberOfSlots, 1))

SeqToSet(q) == {q[k] : k \in 1 .. Len(q)}

----------------------------------------------------------------------------
(* Scan callbacks (HANDLESCANPROC).  A callback is passed by name; it returns the     *)
(* handle as it leaves it.                                                           *)

CheckPromoted_Inverted(hnd) ==
    IF IsPromoted(hnd.obj) THEN [hnd EXCEPT !.obj = NULL] ELSE hnd

CheckPromoted_BothSlots(hnd) ==
    IF ~IsPromoted(hnd.obj) THEN [hnd EXCEPT !.obj = NULL, !.extra = NULL] ELSE hnd

\* CheckPromoted: sever the handle of an object that was not promoted.
CheckPromoted(hnd) ==
    IF ~IsPromoted(hnd.obj) THEN [hnd EXCEPT !.obj = NULL] ELSE hnd

ClearDependentHandle_PrimaryOnly(hnd) ==
    IF ~IsPromoted(hnd.obj) THEN [hnd EXCEPT !.obj = NULL] ELSE hnd

\* ClearDependentHandle: clear primary and secondary when the primary was not promoted.
ClearDependentHandle(hnd) ==
    IF ~IsPromoted(hnd.obj) THEN [hnd EXCEPT !.obj = NULL, !.extra = NULL] ELSE hnd

\* The flag of the promote callback that asks for the object to be kept in place.  The
\* flags argument of a call is the set of the flags given.
GC_CALL_PINNED == "GC_CALL_PINNED"

\* Pointers are machine words of WordBits bits.
WordBits == 4

WordSize == 2 ^ WordBits

\* (uintptr_t)p: the word a pointer is; the null pointer is the word 0.
AddressOf(p) == IF p = NULL THEN 0 ELSE p % WordSize

\* The addresses objects may have after the collection.
Addresses == 1 .. (NumObjects + 1)

\* The relocation callback of the collector (promote_func fn of the relocation entry
\* points): the address the plan gives the object at address a.
Relocate(a) == IF a \in DOMAIN plan THEN plan[a] ELSE a

\* callback(pRef, sc, flags) on the primary slot of a handle.  While objects are marked
\* the collector is told of the object and of the flags and leaves the slot alone; the
\* handle keeps the flags it was reported with (marks).  Once the plan is made, the
\* callback is the relocation callback: it stores the new address in the slot (nreloc
\* counts the times it did).
promote_func(hnd, flags) ==
    IF plan = <<>>
    THEN [hnd EXCEPT !.marks = @ \cup {flags}]
    ELSE [hnd EXCEPT !.obj = Relocate(@), !.nreloc = @ + 1]

PinObject_NoFlag(hnd) == promote_func(hnd, {})

\* PinObject: callback(pRef, sc, GC_CALL_PINNED).
PinObject(hnd) == promote_func(hnd, {GC_CALL_PINNED})

\* AsyncPinObject: callback(pRef, sc, 0), then the walk of the payload of an object
\* that is there (walked: GCToEEInterface::WalkAsyncPinnedForPromotion was called).
AsyncPinObject(hnd) ==
    [promote_func(hnd, {}) EXCEPT !.walked = @ \/ (hnd.obj \notin {NULL, Destroyed})]

\* PromoteObject: callback(ppRef, sc, 0).
PromoteObject(hnd) == promote_func(hnd, {})

\* The callback was called for the handle in a scan with the sc->concurrent of the
\* collection.
Called(hnd, name) ==
    [hnd EXCEPT !.calls = @ \cup {[callback |-> name, concurrent |-> concurrent]}]

PromoteRefCounted_Unasked(hnd) ==
    IF hnd.obj \notin {NULL, Destroyed} /\ ~IsPromoted(hnd.obj)
    THEN promote_func(Called(hnd, "PromoteRefCounted"), {})
    ELSE Called(hnd, "PromoteRefCounted")

\* PromoteRefCounted: after the assertion on sc->concurrent, callback(&pObj, sc, 0) for
\* an object that is not promoted and that RefCountedHandleCallbacks answers true for.
PromoteRefCounted(hnd) ==
    IF hnd.obj \notin {NULL, Destroyed} /\ ~IsPromoted(hnd.obj) /\ hnd.obj \in refcounted
    THEN promote_func(Called(hnd, "PromoteRefCounted"), {})
    ELSE Called(hnd, "PromoteRefCounted")

\* GetBridgeObjectsForProcessing: RegisterBridgeObject(*ppRef, *pExtraInfo) for an
\* object that is not promoted (registered below, from the handles it was called for).
GetBridgeObjectsForProcessing(hnd) == Called(hnd, "GetBridgeObjectsForProcessing")

\* UpdatePointer: callback(ppRef, sc, 0).
UpdatePointer(hnd) == promote_func(hnd, {})

\* UpdatePointerPinned: callback(ppRef, sc, GC_CALL_PINNED).
UpdatePointerPinned(hnd) == promote_func(hnd, {GC_CALL_PINNED})

\* UpdateDependentHandle: callback(pPrimaryRef, sc, 0); callback(pSecondaryRef, sc, 0).
UpdateDependentHandle(hnd) ==
    [promote_func(hnd, {}) EXCEPT !.extra = Relocate(@)]

InteriorDelta_Unsigned(pNewPrimary, pOldPrimary) ==
    IF pNewPrimary >= pOldPrimary THEN pNewPrimary - pOldPrimary ELSE pOldPrimary - pNewPrimary

\* uintptr_t delta = ((uintptr_t)pNewPrimary) - ((uintptr_t)pOldPrimary).
InteriorDelta(pNewPrimary, pOldPrimary) == (pNewPrimary - pOldPrimary) % WordSize

NewInterior_NoOld(pOldInterior, pOldPrimary, pNewPrimary) ==
    IF pNewPrimary # NULL THEN (pOldInterior + AddressOf(pNewPrimary)) % WordSize ELSE pOldInterior

\* pNewInterior = pOldInterior + delta, when the new primary is not null.
NewInterior(pOldInterior, pOldPrimary, pNewPrimary) ==
    IF pNewPrimary # NULL
    THEN (pOldInterior + InteriorDelta(AddressOf(pNewPrimary), AddressOf(pOldPrimary))) % WordSize
    ELSE pOldInterior

\* UpdateWeakInteriorHandle: callback(pPrimaryRef, sc, 0), then the interior pointer in
\* the extra info follows the primary.
UpdateWeakInteriorHandle(hnd) ==
    [promote_func(hnd, {}) EXCEPT !.extra = NewInterior(@, hnd.obj, promote_func(hnd, {}).obj)]

\* The rootFlags ScanPointerForProfilerAndETW works out from the type of the handle.
RootFlags(hnd) ==
    CASE hnd.type \in {HNDTYPE_WEAK_SHORT, HNDTYPE_WEAK_LONG, HNDTYPE_WEAK_INTERIOR_POINTER,
                       HNDTYPE_WEAK_NATIVE_COM} -> {"kEtwGCRootFlagsWeakRef"}
      [] hnd.type \in {HNDTYPE_PINNED, HNDTYPE_ASYNCPINNED} -> {"kEtwGCRootFlagsPinning"}
      [] hnd.type = HNDTYPE_VARIABLE ->
            (IF BitsIntersect(hnd.extra, VHT_WEAK_SHORT + VHT_WEAK_LONG)
             THEN {"kEtwGCRootFlagsWeakRef"} ELSE {})
            \cup (IF BitsIntersect(hnd.extra, VHT_PINNED) THEN {"kEtwGCRootFlagsPinning"} ELSE {})
      [] hnd.type = HNDTYPE_REFCOUNTED ->
            {"kEtwGCRootFlagsRefCounted"}
            \cup (IF hnd.obj # NULL /\ hnd.obj \notin refcounted
                  THEN {"kEtwGCRootFlagsWeakRef"} ELSE {})
      [] OTHER -> {}

\* ScanPointerForProfilerAndETW: fn(pRef, pSec, rootFlags, pSC, isDependent), the event
\* of the visit, counted on the handle with the flags it was given.
ScanPointerForProfilerAndETW(hnd) ==
    [hnd EXCEPT !.events = @ + 1, !.marks = @ \cup {RootFlags(hnd)}]

\* pInfo->pfnTrace(pObjRef, NULL, lp1, pInfo->lp2): the call of a callback given by name.
CallTrace(pfnTrace, hnd) ==
    CASE pfnTrace = "CheckPromoted" -> CheckPromoted(hnd)
      [] pfnTrace = "ClearDependentHandle" -> ClearDependentHandle(hnd)
      [] pfnTrace = "PinObject" -> PinObject(hnd)
      [] pfnTrace = "AsyncPinObject" -> AsyncPinObject(hnd)
      [] pfnTrace = "UpdatePointer" -> UpdatePointer(hnd)
      [] pfnTrace = "UpdatePointerPinned" -> UpdatePointerPinned(hnd)
      [] pfnTrace = "UpdateDependentHandle" -> UpdateDependentHandle(hnd)
      [] pfnTrace = "UpdateWeakInteriorHandle" -> UpdateWeakInteriorHandle(hnd)
      [] pfnTrace = "PromoteObject" -> PromoteObject(hnd)
      [] pfnTrace = "PromoteRefCounted" -> PromoteRefCounted(hnd)
      [] pfnTrace = "GetBridgeObjectsForProcessing" -> GetBridgeObjectsForProcessing(hnd)
      [] pfnTrace = "ScanPointerForProfilerAndETW" -> ScanPointerForProfilerAndETW(hnd)

\* VariableTraceDispatcher: call pInfo.pfnTrace if the handle's dynamic type is in the mask.
VariableTraceDispatcher(hnd, pInfo) ==
    IF BitsIntersect(hnd.extra, pInfo.lEnableMask) THEN CallTrace(pInfo.pfnTrace, hnd) ELSE hnd

\* The call HndScanHandlesForGC makes of its callback pfnScan, with lp2 as last argument.
CallScan(pfnScan, hnd, lp2) ==
    IF pfnScan = "VariableTraceDispatcher"
    THEN VariableTraceDispatcher(hnd, lp2)
    ELSE CallTrace(pfnScan, hnd)

----------------------------------------------------------------------------
(* The handle table primitive: HndScanHandlesForGC applies the callback to every     *)
(* handle of the primitive whose type is among the types.                            *)

HndScanHandlesForGC(H, hTable, pfnScan, lp2, types) ==
    [h \in DOMAIN H |->
        LET hnd == H[h]
        IN IF <<hnd.bucket, hnd.cpu>> = hTable /\ hnd.type \in types
           THEN CallScan(pfnScan, hnd, lp2) ELSE hnd]

RECURSIVE ScanTables(_, _, _, _, _, _)
\* The scan loop: HndScanHandlesForGC on each primitive of visits[k..] in turn.
ScanTables(H, visits, k, pfnScan, lp2, types) ==
    IF k > Len(visits) THEN H
    ELSE ScanTables(HndScanHandlesForGC(H, visits[k], pfnScan, lp2, types), visits, k + 1,
                    pfnScan, lp2, types)

\* TraceVariableHandles: the striding scan of the HNDTYPE_VARIABLE handles.
TraceVariableHandles(H, pfnTrace, sc, uEnableMask) ==
    ScanTables(H, ScanVisits(sc), 1, "VariableTraceDispatcher",
               [lEnableMask |-> uEnableMask, pfnTrace |-> pfnTrace], {HNDTYPE_VARIABLE})

\* The types Ref_CheckAlive checks (lines 1645-1651).
CheckAliveTypes == {HNDTYPE_WEAK_SHORT, HNDTYPE_WEAK_NATIVE_COM}

\* The types Ref_CheckReachable checks (lines 1218-1225).
CheckReachableTypes == {HNDTYPE_WEAK_LONG, HNDTYPE_REFCOUNTED, HNDTYPE_WEAK_INTERIOR_POINTER}

\* The handles after Ref_CheckAlive(condemned, maxgen, sc).
CheckAliveResult(H, sc) ==
    TraceVariableHandles(ScanTables(H, ScanVisits(sc), 1, "CheckPromoted", 0, CheckAliveTypes),
                         "CheckPromoted", sc, VHT_WEAK_SHORT)

\* The handles after Ref_CheckReachable(condemned, maxgen, sc).
CheckReachableResult(H, sc) ==
    TraceVariableHandles(ScanTables(H, ScanVisits(sc), 1, "CheckPromoted", 0, CheckReachableTypes),
                         "CheckPromoted", sc, VHT_WEAK_LONG)

\* The handles after Ref_ScanDependentHandlesForClearing(condemned, maxgen, sc).
DhClearingResult(H, sc) ==
    ScanTables(H, ScanVisits(sc), 1, "ClearDependentHandle", 0, {HNDTYPE_DEPENDENT})

----------------------------------------------------------------------------
(* A collection: the collector has each of its workers run an entry point, waits   *)
(* for all of them, and goes on to the next entry point.                           *)

\* The directory the collections of the model run on: the global bucket at index 0, and a
\* bucket in the first slot of a second chunk; the buckets that filled the head chunk on
\* the way have been destroyed again.
GcBucket == INITIAL_HANDLE_TABLE_ARRAY_SIZE

GcBuckets == {0, GcBucket}

GcDirectory ==
    /\ pBuckets = [c \in Chunks |->
                      IF c = 0 THEN [EmptySlots EXCEPT ![0] = 0]
                      ELSE IF c = 1 THEN [EmptySlots EXCEPT ![0] = GcBucket] ELSE EmptySlots]
    /\ dwMaxIndex = [c \in Chunks |->
                      IF c = 0 THEN INITIAL_HANDLE_TABLE_ARRAY_SIZE
                      ELSE IF c = 1 THEN 2 * INITIAL_HANDLE_TABLE_ARRAY_SIZE ELSE 0]
    /\ pNext = [c \in Chunks |-> IF c = 0 THEN 1 ELSE NULL]
    /\ liveChunks = {1}
    /\ HandleTableIndex = [b \in Buckets |->
                      IF b = 0 \/ b > GcBucket THEN 0
                      ELSE IF b = GcBucket THEN INITIAL_HANDLE_TABLE_ARRAY_SIZE ELSE b]
    /\ pTable = [b \in Buckets |->
                      IF b = 0 THEN [n \in CpuRange |-> 0]
                      ELSE IF b = GcBucket THEN [n \in CpuRange |-> INITIAL_HANDLE_TABLE_ARRAY_SIZE]
                      ELSE <<>>]
    /\ bucketState = [b \in Buckets |->
                      IF b \in GcBuckets THEN "installed"
                      ELSE IF b < GcBucket THEN "destroyed" ELSE "unused"]
    /\ thr = [t \in Threads |-> IdleThread]
    /\ nInit = GcBucket
    /\ nRemove = GcBucket - 1

\* The values a handle of a type may hold when a collection begins.
HandleValues(type) ==
    IF type = HNDTYPE_VARIABLE
    THEN {[obj |-> o, extra |-> x] : o \in Objects \cup {NULL}, x \in VariableHandleTypes}
    ELSE IF type = HNDTYPE_DEPENDENT
    THEN {[obj |-> o, extra |-> x] : o \in Objects \cup {NULL}, x \in Objects \cup {NULL}}
    ELSE {[obj |-> o, extra |-> 0] : o \in Objects \cup {NULL}}

\* The handle tables with handles of the types in T, each in a primitive of a bucket of
\* the directory.
HandleTables(T) ==
    {H \in [HandleIds -> [type : T, bucket : GcBuckets, cpu : CpuRange,
                          obj : Objects \cup {NULL}, extra : Objects \cup {NULL, 0} \cup VariableHandleTypes]] :
        \A h \in HandleIds :
            [obj |-> H[h].obj, extra |-> H[h].extra] \in HandleValues(H[h].type)}

Primitives == GcBuckets \X (0 .. (TotalProcessorCount - 1))

EmptyLog == [p \in Primitives |-> <<>>]

\* The log with worker w added to each primitive of visits.
Logged(log, visits, w) ==
    [p \in Primitives |-> IF p \in SeqToSet(visits) THEN Append(log[p], w) ELSE log[p]]

NoDependentScan ==
    /\ dhc = <<>>
    /\ dhw = <<>>

\* The entry points of the weak phase and the clearing of dependent handles, in the
\* order the collector calls them.
WeakPhases == <<"Ref_CheckAlive", "Ref_CheckReachable", "Ref_ScanDependentHandlesForClearing",
                "done">>

InitGC ==
    /\ serverHeap \in BOOLEAN
    /\ GcDirectory
    /\ thread_count \in (IF serverHeap THEN 1 .. MaxThreadCount ELSE {1})
    /\ handles \in HandleTables(HandleTypes)
    /\ handles0 = handles
    /\ promoted \in SUBSET Objects
    /\ phase = 1
    /\ ran = {}
    /\ scanLog = EmptyLog
    /\ NoDependentScan
    /\ NoExtras

\* Worker w runs the entry point of the phase, which leaves the handles as result.
RunEntry(w, name, result) ==
    /\ WeakPhases[phase] = name
    /\ w \in Workers \ ran
    /\ handles' = result
    /\ ran' = ran \cup {w}
    /\ scanLog' = Logged(scanLog, ScanVisits(ScanContextOf(w)), w)
    /\ UNCHANGED <<dirVars, extVars, serverHeap, handles0, promoted, thread_count, phase, dhc, dhw>>

Ref_CheckAlive(w) == RunEntry(w, "Ref_CheckAlive", CheckAliveResult(handles, ScanContextOf(w)))

Ref_CheckReachable(w) ==
    RunEntry(w, "Ref_CheckReachable", CheckReachableResult(handles, ScanContextOf(w)))

Ref_ScanDependentHandlesForClearing(w) ==
    RunEntry(w, "Ref_ScanDependentHandlesForClearing", DhClearingResult(handles, ScanContextOf(w)))

\* Every worker has returned: the collector goes on to the next entry point.
PhaseBarrier ==
    /\ WeakPhases[phase] # "done"
    /\ ran = Workers
    /\ phase' = phase + 1
    /\ ran' = {}
    /\ scanLog' = EmptyLog
    /\ UNCHANGED <<dirVars, extVars, serverHeap, handles, handles0, promoted, thread_count, dhc, dhw>>

NextGC ==
    \/ \E w \in 0 .. (MaxThreadCount - 1) :
        \/ Ref_CheckAlive(w)
        \/ Ref_CheckReachable(w)
        \/ Ref_ScanDependentHandlesForClearing(w)
    \/ PhaseBarrier

SpecGC == InitGC /\ [][NextGC]_vars

----------------------------------------------------------------------------
(* Properties of the weak phase and of the clearing of dependent handles (SpecGC). *)

WeakTypes == {HNDTYPE_WEAK_SHORT, HNDTYPE_WEAK_LONG, HNDTYPE_WEAK_NATIVE_COM,
              HNDTYPE_WEAK_INTERIOR_POINTER}

\* Every worker has returned from Ref_CheckAlive and from Ref_CheckReachable.
WeakPhaseDone == phase > 2

\* C1: after the weak phase (Ref_CheckAlive and Ref_CheckReachable run by every worker),
\* every handle of type WeakShort, WeakNativeCom, WeakLong or WeakInteriorPointer whose
\* object the oracle reports as not promoted reads null, and every such handle whose
\* object is promoted still holds it.
C1_WeakHandlesCleared ==
    WeakPhaseDone =>
        \A h \in HandleIds :
            handles0[h].type \in WeakTypes =>
                handles[h].obj = (IF IsPromoted(handles0[h].obj) THEN handles0[h].obj ELSE NULL)

\* A weak handle in a primitive that the second of two workers scans has been severed.
C1_Witness ==
    /\ WeakPhaseDone
    /\ thread_count = 2
    /\ \E h \in HandleIds :
        /\ handles0[h].type \in WeakTypes
        /\ handles0[h].obj # NULL
        /\ ~IsPromoted(handles0[h].obj)
        /\ handles0[h].cpu = 1
        /\ handles[h].obj = NULL

\* Every worker has returned from Ref_ScanDependentHandlesForClearing.
ClearingDone == WeakPhases[phase] = "done"

\* C3: after Ref_ScanDependentHandlesForClearing has been run by every worker, every
\* Dependent handle whose primary is not promoted has a null primary and a null
\* secondary, and every Dependent handle whose primary is promoted keeps both words.
C3_DependentCleared ==
    ClearingDone =>
        \A h \in HandleIds :
            handles0[h].type = HNDTYPE_DEPENDENT =>
                IF IsPromoted(handles0[h].obj)
                THEN handles[h].obj = handles0[h].obj /\ handles[h].extra = handles0[h].extra
                ELSE handles[h].obj = NULL /\ handles[h].extra = NULL

\* A Dependent handle with an unpromoted primary and a secondary has lost both.
C3_Witness ==
    /\ ClearingDone
    /\ \E h \in HandleIds :
        /\ handles0[h].type = HNDTYPE_DEPENDENT
        /\ handles0[h].obj # NULL
        /\ handles0[h].extra # NULL
        /\ ~IsPromoted(handles0[h].obj)
        /\ handles[h].obj = NULL
        /\ handles[h].extra = NULL

\* C5: in server mode, once the workers 0 .. thread_count-1 have each run the same entry
\* point, every primitive of every bucket in the directory has been scanned by exactly
\* one worker, the one whose thread_number is the primitive's index mod thread_count.
C5_StridePartition ==
    (serverHeap /\ phase \in 1 .. 3 /\ ran = Workers) =>
        \A b \in SeqToSet(WalkBuckets) : \A c \in CpuRange :
            scanLog[<<b, c>>] = <<c % thread_count>>

\* Two workers have scanned three primitives a bucket: the first of them two.
C5_Witness ==
    /\ serverHeap
    /\ thread_count = 2
    /\ phase \in 1 .. 3
    /\ ran = Workers
    /\ scanLog[<<GcBucket, 0>>] = <<0>>
    /\ scanLog[<<GcBucket, 1>>] = <<1>>
    /\ scanLog[<<GcBucket, 2>>] = <<0>>

----------------------------------------------------------------------------
(* The promotion of the secondaries of dependent handles.  Each worker is inside     *)
(* Ref_ScanDependentHandlesForPromotion with the context of its slot; the workers of *)
(* a server collection run it at the same time, one callback at a time each.         *)

NumDhHandles == 2

NumDhObjects == 3

MaxDhThreads == 2

\* Iterations after which a scan loop is no longer followed.
MaxIterations == NumDhHandles + 2

DhHandleIds == 1 .. NumDhHandles

DhObjects == 1 .. NumDhObjects

DhWorkers == 0 .. (MaxDhThreads - 1)

\* A rank of the handles, to list each population of handles once.
HandleRank(hnd) ==
    (hnd.cpu * (NumDhObjects + 2) + (hnd.obj + 1)) * (NumDhObjects + 2) + (hnd.extra + 1)

\* The dependent handles of the collections examined: each in a primitive of the bucket
\* of the second chunk, with any primary and any secondary.  The scans visit the handles
\* of a primitive in any order, so the populations are listed by rank.
DhHandleTables ==
    {H \in [DhHandleIds -> [type : {HNDTYPE_DEPENDENT}, bucket : {GcBucket}, cpu : CpuRange,
                            obj : DhObjects \cup {NULL}, extra : DhObjects \cup {NULL}]] :
        \A h, g \in DhHandleIds : h < g => HandleRank(H[h]) <= HandleRank(H[g])}

\* The promote callback of the collector (m_pfnPromoteFunction): marks the object, and may
\* mark objects reachable from it; it never unmarks one.  The promoted sets it may leave.
PromoteCallback(o) == {promoted \cup {o} \cup X : X \in SUBSET DhObjects}

Ref_GetDependentHandleContext_Shared(sc) == 0

\* Ref_GetDependentHandleContext: the index of the context of a scan context.
Ref_GetDependentHandleContext(sc) == getSlotNumber(sc)

ClearedFlags_StaleUnpromoted == [m_fUnpromotedPrimaries |-> TRUE, m_fPromoted |-> FALSE]

\* pDhContext->m_fUnpromotedPrimaries = false; pDhContext->m_fPromoted = false;
ClearedFlags == [m_fUnpromotedPrimaries |-> FALSE, m_fPromoted |-> FALSE]

IdleDhWorker == [pc |-> "idle", visited |-> {}, cur |-> 0, iters |-> 0,
                 fAnyPromotions |-> FALSE, ret |-> FALSE, called |-> FALSE]

\* The Dependent handles in the primitives the scan loop of worker w visits.
StrideHandles(w) ==
    {h \in DOMAIN handles :
        /\ handles[h].type = HNDTYPE_DEPENDENT
        /\ <<handles[h].bucket, handles[h].cpu>> \in SeqToSet(ScanVisits(ScanContextOf(w)))}

\* The place of the primitive of handle h in the order worker w visits primitives.
VisitPosition(w, h) ==
    LET visits == ScanVisits(ScanContextOf(w))
    IN CHOOSE k \in 1 .. Len(visits) : visits[k] = <<handles[h].bucket, handles[h].cpu>>

\* Handle h may be the next one the scan of worker w hands to the callback: primitives
\* are visited in order, the handles of one primitive in any order.
NextVisited(w, h) ==
    /\ h \in StrideHandles(w) \ dhw[w].visited
    /\ \A g \in StrideHandles(w) \ dhw[w].visited : VisitPosition(w, h) <= VisitPosition(w, g)

Rescan_Either(ctx) == ctx.m_fUnpromotedPrimaries \/ ctx.m_fPromoted

Rescan_Never(ctx) == FALSE

AnyPromotions_LastOnly(fAnyPromotions, ctx) == ctx.m_fPromoted

\* if (pDhContext->m_fPromoted) fAnyPromotions = true;
AnyPromotions(fAnyPromotions, ctx) == fAnyPromotions \/ ctx.m_fPromoted

\* while (pDhContext->m_fUnpromotedPrimaries && pDhContext->m_fPromoted)
Rescan(ctx) == ctx.m_fUnpromotedPrimaries /\ ctx.m_fPromoted

InitDh ==
    /\ serverHeap \in BOOLEAN
    /\ GcDirectory
    /\ thread_count \in (IF serverHeap THEN 1 .. MaxDhThreads ELSE {1})
    /\ handles \in DhHandleTables
    /\ handles0 = handles
    /\ promoted \in SUBSET DhObjects
    /\ phase = 0
    /\ ran = {}
    /\ scanLog = EmptyLog
    /\ dhc = [n \in CpuRange |-> ClearedFlags]
    /\ dhw = [w \in DhWorkers |-> IdleDhWorker]
    /\ NoExtras

\* Worker w enters Ref_ScanDependentHandlesForPromotion and starts the first scan.
DhPromotion_Begin(w) ==
    /\ w \in Workers
    /\ dhw[w].pc = "idle"
    /\ dhw' = [dhw EXCEPT ![w] = [IdleDhWorker EXCEPT !.pc = "scan", !.iters = 1]]
    /\ dhc' = [dhc EXCEPT ![Ref_GetDependentHandleContext(ScanContextOf(w))] = ClearedFlags]
    /\ UNCHANGED <<dirVars, extVars, serverHeap, handles, handles0, promoted, thread_count, phase,
                   ran, scanLog>>

\* PromoteDependentHandle up to the call of the promote callback.
PromoteDependentHandle_Check(w, h) ==
    /\ w \in Workers
    /\ dhw[w].pc = "scan"
    /\ NextVisited(w, h)
    /\ LET hnd == handles[h]
           slot == Ref_GetDependentHandleContext(ScanContextOf(w))
       IN IF hnd.obj # NULL /\ IsPromoted(hnd.obj)
          THEN IF ~IsPromoted(hnd.extra)
               THEN /\ dhw' = [dhw EXCEPT ![w].pc = "promote", ![w].cur = h]
                    /\ dhc' = dhc
               ELSE /\ dhw' = [dhw EXCEPT ![w].visited = @ \cup {h}]
                    /\ dhc' = dhc
          ELSE IF hnd.obj # NULL
               THEN /\ dhw' = [dhw EXCEPT ![w].visited = @ \cup {h}]
                    /\ dhc' = [dhc EXCEPT ![slot].m_fUnpromotedPrimaries = TRUE]
               ELSE /\ dhw' = [dhw EXCEPT ![w].visited = @ \cup {h}]
                    /\ dhc' = dhc
    /\ UNCHANGED <<dirVars, extVars, serverHeap, handles, handles0, promoted, thread_count, phase,
                   ran, scanLog>>

\* PromoteDependentHandle: the promote callback on the secondary, and m_fPromoted
\* (called: the call of Ref_ScanDependentHandlesForPromotion has promoted a secondary).
PromoteDependentHandle_Promote(w) ==
    /\ w \in Workers
    /\ dhw[w].pc = "promote"
    /\ promoted' \in PromoteCallback(handles[dhw[w].cur].extra)
    /\ dhc' = [dhc EXCEPT ![Ref_GetDependentHandleContext(ScanContextOf(w))].m_fPromoted = TRUE]
    /\ dhw' = [dhw EXCEPT ![w].pc = "scan", ![w].visited = @ \cup {dhw[w].cur}, ![w].cur = 0,
                          ![w].called = TRUE]
    /\ UNCHANGED <<dirVars, extVars, serverHeap, handles, handles0, thread_count, phase, ran, scanLog>>

\* The end of one iteration of the do/while loop: note a promotion, then scan again or
\* return.
DhPromotion_EndScan(w) ==
    /\ w \in Workers
    /\ dhw[w].pc = "scan"
    /\ StrideHandles(w) \subseteq dhw[w].visited
    /\ LET slot == Ref_GetDependentHandleContext(ScanContextOf(w))
           any == AnyPromotions(dhw[w].fAnyPromotions, dhc[slot])
       IN IF Rescan(dhc[slot])
          THEN /\ dhw[w].iters < MaxIterations
               /\ dhw' = [dhw EXCEPT ![w].visited = {}, ![w].iters = @ + 1,
                                     ![w].fAnyPromotions = any]
               /\ dhc' = [dhc EXCEPT ![slot] = ClearedFlags]
          ELSE /\ dhw' = [dhw EXCEPT ![w].pc = "returned", ![w].fAnyPromotions = any,
                                     ![w].ret = any]
               /\ dhc' = dhc
    /\ UNCHANGED <<dirVars, extVars, serverHeap, handles, handles0, promoted, thread_count, phase,
                   ran, scanLog>>

\* Every worker has returned and one of them promoted: the collector has them all scan
\* again (phase counts the rounds that are over).
DhPromotion_NextRound ==
    /\ \A w \in Workers : dhw[w].pc = "returned"
    /\ \E w \in Workers : dhw[w].ret
    /\ dhw' = [w \in DhWorkers |-> IdleDhWorker]
    /\ phase' = phase + 1
    /\ UNCHANGED <<dirVars, extVars, serverHeap, handles, handles0, promoted, thread_count,
                   ran, scanLog, dhc>>

NextDh ==
    \/ \E w \in DhWorkers :
        \/ DhPromotion_Begin(w)
        \/ \E h \in DhHandleIds : PromoteDependentHandle_Check(w, h)
        \/ PromoteDependentHandle_Promote(w)
        \/ DhPromotion_EndScan(w)
    \/ DhPromotion_NextRound

SpecDh == InitDh /\ [][NextDh]_vars

\* C2: when Ref_ScanDependentHandlesForPromotion returns for the only worker
\* (thread_count = 1), every Dependent handle with a non-null promoted primary has a
\* promoted secondary, whatever the order of the visits and the chains of handles.
C2_PromotedPrimaryPromotedSecondary ==
    (thread_count = 1 /\ dhw[0].pc = "returned") =>
        \A h \in DhHandleIds :
            (handles[h].obj # NULL /\ IsPromoted(handles[h].obj)) => IsPromoted(handles[h].extra)

\* The only worker has returned after a second scan of a chain of two handles, the
\* secondary of one being the primary of the other, with all three objects promoted.
C2_Witness ==
    /\ thread_count = 1
    /\ dhw[0].pc = "returned"
    /\ dhw[0].iters >= 2
    /\ dhw[0].ret
    /\ \E h, g \in DhHandleIds :
        /\ handles[h].obj # NULL
        /\ handles[h].extra # NULL
        /\ handles[g].obj = handles[h].extra
        /\ handles[g].extra \notin {NULL, handles[h].obj, handles[h].extra}
        /\ {handles[h].obj, handles[h].extra, handles[g].extra} \subseteq promoted

\* C4: the do/while loop of Ref_ScanDependentHandlesForPromotion runs at most (number of
\* Dependent handles in the worker's stride + 1) iterations.
C4_IterationBound ==
    \A w \in DhWorkers : dhw[w].iters <= Cardinality(StrideHandles(w)) + 1

\* One of two workers, whose stride holds both handles, has returned from a second
\* iteration in which it promoted a secondary.
C4_Witness ==
    \E w \in DhWorkers :
        /\ thread_count = 2
        /\ dhw[w].pc = "returned"
        /\ Cardinality(StrideHandles(w)) = 2
        /\ dhw[w].iters = 2
        /\ dhc[Ref_GetDependentHandleContext(ScanContextOf(w))].m_fPromoted

----------------------------------------------------------------------------
(* Properties of the bucket directory (Spec, SpecInsert). *)

\* The slots <<chunk, slot>> of the chain that hold bucket b.
SlotsHolding(b) == {cs \in ChainSet \X SlotRange : pBuckets[cs[1]][cs[2]] = b}

\* The buckets whose call of Ref_InitializeHandleTableBucket has returned true and that
\* have not been removed since.
Installed == {b \in Buckets : bucketState[b] = "installed"}

\* C6: under any interleaving of concurrent calls of Ref_InitializeHandleTableBucket on
\* distinct buckets, every call that returned true has its bucket in exactly one slot of
\* the directory, and the HandleTableIndex values returned are pairwise distinct.
C6_OneSlotEach ==
    /\ \A b \in Installed : Cardinality(SlotsHolding(b)) = 1
    /\ \A b1, b2 \in Installed : b1 # b2 => HandleTableIndex[b1] # HandleTableIndex[b2]

\* Both threads have returned true from calls that overlapped, one of them after losing
\* a compare-exchange on a slot to the other.
C6_Witness ==
    /\ \A t \in Threads : thr[t].pc = "done" /\ thr[t].op = "init" /\ thr[t].result
    /\ \E t \in Threads : thr[t].casFailed
    /\ \E t, u \in Threads :
        /\ thr[t].bucket # thr[u].bucket
        /\ HandleTableIndex[thr[t].bucket] + 1 = HandleTableIndex[thr[u].bucket]

\* Both threads have returned true from calls they made when each of the k chunks of the
\* chain was full.
BothCalledWhenFull(k) ==
    /\ k > 0
    /\ \A t \in Threads :
        thr[t].pc = "done" /\ thr[t].op = "init" /\ thr[t].result /\ thr[t].startChunks = k

\* C7: when two threads call Ref_InitializeHandleTableBucket while every slot of every
\* chunk is occupied, exactly one new chunk is linked at the tail of the chain, no other
\* chunk stays allocated, the two buckets get the two lowest indices of the new chunk, and
\* every occupied slot holds a bucket a caller owns.
C7_OneChunkLinked ==
    \A k \in 1 .. Cardinality(Chunks) :
        BothCalledWhenFull(k) =>
            /\ Len(Chain) = k + 1
            /\ liveChunks = ChainSet \ {0}
            /\ {HandleTableIndex[thr[t].bucket] : t \in Threads}
                   = {dwMaxIndex[Chain[k]], dwMaxIndex[Chain[k]] + 1}
            /\ {pBuckets[Chain[k + 1]][s] : s \in {0, 1}} = {thr[t].bucket : t \in Threads}
            /\ \A c \in ChainSet : \A s \in SlotRange :
                   pBuckets[c][s] # NULL => pBuckets[c][s] \in Installed

\* Both threads found the one chunk full and allocated a chunk; the chunk allocated second
\* was linked, the one allocated first has been freed, and both buckets are in the
\* linked chunk.
C7_Witness ==
    /\ BothCalledWhenFull(1)
    /\ Chain = <<0, 2>>
    /\ liveChunks = {2}
    /\ \A t \in Threads : HandleTableIndex[thr[t].bucket] >= INITIAL_HANDLE_TABLE_ARRAY_SIZE

\* The offset the walks of the directory have when they reach the k-th chunk of the chain.
ChainOffset(k) == IF k = 1 THEN 0 ELSE dwMaxIndex[Chain[k - 1]]

\* C8: every occupied directory slot at global index k holds a bucket whose
\* HandleTableIndex is k and whose N_slots primitives are all allocated and carry table
\* index k, in every reachable state (so no bucket is observable before that holds).
C8_SlotHoldsIndexedBucket ==
    \A k \in 1 .. Len(Chain) : \A s \in SlotRange :
        LET b == pBuckets[Chain[k]][s]
        IN b # NULL =>
            /\ HandleTableIndex[b] = ChainOffset(k) + s
            /\ DOMAIN pTable[b] = CpuRange
            /\ \A n \in CpuRange : pTable[b][n] = ChainOffset(k) + s

\* A call has succeeded on a slot of the second chunk after its compare-exchange on an
\* earlier slot failed.
C8_Witness ==
    \E t \in Threads :
        /\ thr[t].pc = "done" /\ thr[t].op = "init" /\ thr[t].result
        /\ thr[t].casFailed
        /\ Len(Chain) >= 2
        /\ \E s \in SlotRange :
            /\ pBuckets[Chain[2]][s] = thr[t].bucket
            /\ \A n \in CpuRange : pTable[thr[t].bucket][n] = INITIAL_HANDLE_TABLE_ARRAY_SIZE + s

\* C9: no step changes a directory slot from one bucket to a different bucket: a slot
\* only goes from null to a bucket or from a bucket to null.
C9_SlotNeverOverwritten ==
    [][\A c \in Chunks : \A s \in SlotRange :
          (pBuckets[c][s] # NULL /\ pBuckets'[c][s] # NULL) => pBuckets'[c][s] = pBuckets[c][s]]_vars

\* A slot that held a bucket, since removed, holds another bucket now.
C9_Witness ==
    \E b1, b2 \in Buckets :
        /\ b1 # b2
        /\ bucketState[b1] \in {"removed", "destroyed"}
        /\ bucketState[b2] = "installed"
        /\ HandleTableIndex[b1] = HandleTableIndex[b2]
        /\ SlotsHolding(b2) # {}

\* C10: the chain of chunks from the static head is acyclic, the head's dwMaxIndex is
\* INITIAL_HANDLE_TABLE_ARRAY_SIZE, and the dwMaxIndex of every later chunk is its
\* predecessor's plus INITIAL_HANDLE_TABLE_ARRAY_SIZE.
C10_ChainWellFormed ==
    /\ Len(Chain) <= Cardinality(Chunks)
    /\ \A j, k \in 1 .. Len(Chain) : j # k => Chain[j] # Chain[k]
    /\ dwMaxIndex[0] = INITIAL_HANDLE_TABLE_ARRAY_SIZE
    /\ \A k \in 2 .. Len(Chain) :
           dwMaxIndex[Chain[k]] = dwMaxIndex[Chain[k - 1]] + INITIAL_HANDLE_TABLE_ARRAY_SIZE

\* The chain has grown twice, the second time in a race that one thread lost.
C10_Witness ==
    /\ Len(Chain) = 3
    /\ dwMaxIndex[Chain[3]] = 3 * INITIAL_HANDLE_TABLE_ARRAY_SIZE
    /\ \E t \in Threads : thr[t].pc = "scan" /\ thr[t].walk = Chain[3] /\ thr[t].last = Chain[2]
    /\ liveChunks = {Chain[2], Chain[3]}

\* No call of Ref_InitializeHandleTableBucket is under way.
NoCallUnderWay == \A t \in Threads : thr[t].pc \in {"idle", "done"}

\* The least number of chunks of INITIAL_HANDLE_TABLE_ARRAY_SIZE slots that hold m buckets.
ChunksFor(m) == (m + INITIAL_HANDLE_TABLE_ARRAY_SIZE - 1) \div INITIAL_HANDLE_TABLE_ARRAY_SIZE

\* C24: when M buckets have been inserted into the directory (the global bucket by
\* Ref_Initialize, the others by calls of Ref_InitializeHandleTableBucket that returned
\* true) and none removed, the chain, the head counted, has exactly
\* ceil(M / INITIAL_HANDLE_TABLE_ARRAY_SIZE) chunks.
C24_ChunkCount ==
    NoCallUnderWay => Len(Chain) = ChunksFor(Cardinality(Installed))

\* Five buckets are in the directory, the fifth alone in the third chunk, and the calls
\* of the two threads raced: one lost a compare-exchange on a slot.
C24_Witness ==
    /\ NoCallUnderWay
    /\ Cardinality(Installed) = 2 * INITIAL_HANDLE_TABLE_ARRAY_SIZE + 1
    /\ Len(Chain) = 3
    /\ \E t \in Threads : thr[t].pc = "done" /\ thr[t].casFailed

\* The buckets a walk of the directory reaches.
Reachable == {b \in Buckets : SlotsHolding(b) # {}}

\* The primitive array of bucket b is allocated and none of its primitives is destroyed.
Intact(b) == pTable[b] # <<>> /\ \A n \in CpuRange : pTable[b][n] # Destroyed

\* C21: during Ref_DestroyHandleTableBucket the slot of the bucket is cleared before any
\* of its primitives is destroyed, and the primitive array is freed when all of them
\* are destroyed; so after every step no bucket a walk of the directory reaches has a
\* destroyed primitive or a freed primitive array.
C21_DestroyOrder ==
    [][/\ \A b \in Reachable' : Intact(b)'
       /\ \A b \in Buckets :
            /\ (\E n \in CpuRange : pTable[b] # <<>> /\ pTable[b][n] # Destroyed
                                     /\ pTable'[b] # <<>> /\ pTable'[b][n] = Destroyed)
                   => SlotsHolding(b) = {}
            /\ (pTable[b] # <<>> /\ pTable'[b] = <<>>)
                   => \A n \in CpuRange : pTable[b][n] = Destroyed]_vars

\* Thread t is inside Ref_RemoveHandleTableBucket and takes this step.
RemoveStepOf(t) == thr[t].pc \in {"rm_walk", "rm_store"} /\ thr'[t] # thr[t]

\* The global index of slot s of the k-th chunk of the chain.
GlobalIndex(k, s) == (IF k = 1 THEN 0 ELSE dwMaxIndex[Chain[k - 1]]) + s

\* C22: Ref_RemoveHandleTableBucket changes nothing of the directory but the slot at the
\* index of the bucket, which it sets to null, and only when that slot holds this very
\* bucket; a call for a bucket that is in no slot (already removed) leaves the whole
\* directory as it is, also when the slot at that index holds another bucket.
C22_RemoveOwnSlotOnly ==
    [][\A t \in Threads : RemoveStepOf(t) =>
          /\ UNCHANGED <<dwMaxIndex, pNext, liveChunks, HandleTableIndex, pTable>>
          /\ \A k \in 1 .. Len(Chain) : \A s \in SlotRange :
                pBuckets'[Chain[k]][s] # pBuckets[Chain[k]][s] =>
                    /\ pBuckets[Chain[k]][s] = thr[t].bucket
                    /\ pBuckets'[Chain[k]][s] = NULL
                    /\ GlobalIndex(k, s) = HandleTableIndex[thr[t].bucket]
          /\ \A c \in Chunks \ ChainSet : pBuckets'[c] = pBuckets[c]
          /\ SlotsHolding(thr[t].bucket) = {} => pBuckets' = pBuckets]_vars

\* The second call of Ref_RemoveHandleTableBucket for the global bucket has walked the
\* whole chain and found nothing to clear: the slot at its index holds the bucket the
\* other thread installed after the first call, and still holds it.
C22_Witness ==
    \E t \in Threads :
        /\ nRemove = 2
        /\ nInit = 1
        /\ thr[t].pc = "done" /\ thr[t].op = "remove" /\ thr[t].bucket = 0
        /\ thr[t].walk = NULL
        /\ bucketState[0] = "removed"
        /\ bucketState[1] = "installed"
        /\ HandleTableIndex[1] = HandleTableIndex[0]
        /\ pBuckets[0][0] = 1

\* A thread is in the middle of Ref_DestroyHandleTableBucket, one primitive of its
\* bucket destroyed and the others not, while the slot the bucket had holds the bucket
\* another thread has installed since.
C21_Witness ==
    \E t \in Threads :
        /\ thr[t].pc = "destroy"
        /\ thr[t].cpu = 1
        /\ pTable[thr[t].bucket][0] = Destroyed
        /\ pTable[thr[t].bucket][1] # Destroyed
        /\ \E b \in Reachable :
            /\ b # thr[t].bucket
            /\ HandleTableIndex[b] = HandleTableIndex[thr[t].bucket]

----------------------------------------------------------------------------
(* Pinning and relocation.  The collector has its workers pin (Ref_TracePinningRoots), *)
(* finishes marking, plans where the objects go, and has its workers run the four      *)
(* relocation entry points.                                                            *)

MaxRelocThreads == 2

\* A handle with what the collection is followed by: the flags its object was reported
\* with, whether its payload was walked, the times its slot was relocated, and the
\* callbacks that look at sc->concurrent or call the host, with the sc->concurrent of the
\* scan that called them.
Tracked(hnd) ==
    [type |-> hnd.type, bucket |-> hnd.bucket, cpu |-> hnd.cpu, obj |-> hnd.obj,
     extra |-> hnd.extra, marks |-> {}, walked |-> FALSE, nreloc |-> 0, calls |-> {}]

\* The entry points of pinning and relocation in the order the collector calls them, with
\* the collector's own steps in between.
RelocPhases == <<"Ref_TracePinningRoots", "mark", "plan", "Ref_UpdatePinnedPointers",
                 "Ref_UpdatePointers", "Ref_ScanDependentHandlesForRelocation",
                 "Ref_ScanWeakInteriorPointersForRelocation", "done">>

\* The position of an entry point in RelocPhases.
PhaseOf(name) == CHOOSE k \in DOMAIN RelocPhases : RelocPhases[k] = name

InitReloc ==
    /\ serverHeap \in BOOLEAN
    /\ GcDirectory
    /\ thread_count \in (IF serverHeap THEN 1 .. MaxRelocThreads ELSE {1})
    /\ handles \in {[h \in HandleIds |-> Tracked(H[h])] : H \in HandleTables(HandleTypes)}
    /\ handles0 = handles
    /\ promoted = {}
    /\ phase = 1
    /\ ran = {}
    /\ scanLog = EmptyLog
    /\ NoDependentScan
    /\ NoRelocation
    /\ NoSync
    /\ NoConcurrency
    /\ NoStart

RECURSIVE PinTables(_, _, _)
\* The scan loop of Ref_TracePinningRoots: on each primitive, the pinned handles with
\* PinObject and then the async pinned handles with AsyncPinObject.
PinTables(H, visits, k) ==
    IF k > Len(visits) THEN H
    ELSE PinTables(HndScanHandlesForGC(
                       HndScanHandlesForGC(H, visits[k], "PinObject", 0, {HNDTYPE_PINNED}),
                       visits[k], "AsyncPinObject", 0, {HNDTYPE_ASYNCPINNED}),
                   visits, k + 1)

\* The handles after Ref_TracePinningRoots(condemned, maxgen, sc, fn).
TracePinningRootsResult(H, sc) ==
    TraceVariableHandles(PinTables(H, ScanVisits(sc), 1), "PinObject", sc, VHT_PINNED)

\* The promote calls GCToEEInterface::WalkAsyncPinnedForPromotion may make: it reports
\* objects of the payload, and has some of them pinned.
WalkAsyncPinnedForPromotion ==
    {[reported |-> X, kept |-> Y] : X \in SUBSET Objects, Y \in SUBSET Objects} 

\* The objects the handles of H were reported with flags to the collector.
ReportedWith(H, flags) ==
    {H[h].obj : h \in {g \in DOMAIN H : flags \in H[g].marks}} \ {NULL}

\* Worker w pins: every promote call of the scan reaches the collector.
Ref_TracePinningRoots(w) ==
    /\ RelocPhases[phase] = "Ref_TracePinningRoots"
    /\ w \in Workers \ ran
    /\ LET result == TracePinningRootsResult(handles, ScanContextOf(w))
           walks == \E h \in HandleIds : result[h].walked /\ ~handles[h].walked
       IN /\ handles' = result
          /\ \E payload \in WalkAsyncPinnedForPromotion :
                /\ payload.kept \subseteq payload.reported
                /\ ~walks => payload.reported = {}
                /\ promoted' = promoted \cup ReportedWith(result, {})
                                        \cup ReportedWith(result, {GC_CALL_PINNED})
                                        \cup payload.reported
                /\ pinned' = pinned \cup ReportedWith(result, {GC_CALL_PINNED}) \cup payload.kept
    /\ ran' = ran \cup {w}
    /\ scanLog' = Logged(scanLog, ScanVisits(ScanContextOf(w)), w)
    /\ UNCHANGED <<dirVars, notRelocVars, serverHeap, handles0, thread_count, phase, dhc, dhw, plan>>

\* The types whose handles keep their objects alive by themselves.
RootTypes == {HNDTYPE_STRONG, HNDTYPE_SIZEDREF, HNDTYPE_PINNED, HNDTYPE_ASYNCPINNED}

\* What the collector may find marked once the roots are traced: what was marked before,
\* the objects of the root handles, the secondaries of marked primaries, and any more.
Marked(P) ==
    /\ promoted \subseteq P
    /\ \A h \in HandleIds :
        /\ handles[h].type \in RootTypes /\ handles[h].obj # NULL => handles[h].obj \in P
        /\ handles[h].type = HNDTYPE_VARIABLE /\ handles[h].obj # NULL
              /\ handles[h].extra \in {VHT_STRONG, VHT_PINNED} => handles[h].obj \in P
        /\ handles[h].type = HNDTYPE_DEPENDENT /\ handles[h].obj \in P /\ handles[h].extra # NULL
              => handles[h].extra \in P

\* The collector finishes marking.
Collector_Mark ==
    /\ RelocPhases[phase] = "mark"
    /\ \E P \in SUBSET Objects : Marked(P) /\ promoted' = P
    /\ phase' = phase + 1
    /\ UNCHANGED <<dirVars, notRelocVars, serverHeap, handles, handles0, thread_count, ran,
                   scanLog, dhc, dhw, pinned, plan>>

\* The context of a collector thread that scans every primitive.
WholeScan == [thread_number |-> 0, thread_count |-> 1, concurrent |-> FALSE]

\* The plans the collector may make: no two objects at one address, and every object
\* that was reported with GC_CALL_PINNED where it is.
Plans ==
    {f \in [Objects -> Addresses] :
        /\ \A o1, o2 \in Objects : o1 # o2 => f[o1] # f[o2]
        /\ \A o \in pinned : f[o] = o}

\* The collector clears the handles of the objects that were not marked (the weak phase
\* and the clearing of dependent handles) and plans the relocation.
Collector_Plan ==
    /\ RelocPhases[phase] = "plan"
    /\ handles' = DhClearingResult(CheckReachableResult(CheckAliveResult(handles, WholeScan),
                                                        WholeScan), WholeScan)
    /\ plan' \in Plans
    /\ phase' = phase + 1
    /\ UNCHANGED <<dirVars, notRelocVars, serverHeap, handles0, promoted, thread_count, ran,
                   scanLog, dhc, dhw, pinned>>

\* Worker w runs the relocation entry point of the phase, which leaves the handles as result.
RunRelocation(w, name, result) ==
    /\ RelocPhases[phase] = name
    /\ w \in Workers \ ran
    /\ handles' = result
    /\ ran' = ran \cup {w}
    /\ scanLog' = Logged(scanLog, ScanVisits(ScanContextOf(w)), w)
    /\ UNCHANGED <<dirVars, notRelocVars, serverHeap, handles0, promoted, thread_count, phase,
                   dhc, dhw, pinned, plan>>

\* The types Ref_UpdatePinnedPointers relocates (lines 1851-1856).
UpdatePinnedTypes == {HNDTYPE_PINNED, HNDTYPE_ASYNCPINNED}

\* The handles after Ref_UpdatePinnedPointers(condemned, maxgen, sc, fn).
UpdatePinnedPointersResult(H, sc) ==
    TraceVariableHandles(ScanTables(H, ScanVisits(sc), 1, "UpdatePointerPinned", 0,
                                    UpdatePinnedTypes),
                         "UpdatePointerPinned", sc, VHT_PINNED)

Ref_UpdatePinnedPointers(w) ==
    RunRelocation(w, "Ref_UpdatePinnedPointers",
                  UpdatePinnedPointersResult(handles, ScanContextOf(w)))

UpdatePointersTypes_NoStrong ==
    {HNDTYPE_WEAK_SHORT, HNDTYPE_WEAK_LONG, HNDTYPE_REFCOUNTED, HNDTYPE_WEAK_NATIVE_COM,
     HNDTYPE_SIZEDREF, HNDTYPE_CROSSREFERENCE}

\* The types Ref_UpdatePointers relocates (lines 1712-1729).
UpdatePointersTypes ==
    {HNDTYPE_WEAK_SHORT, HNDTYPE_WEAK_LONG, HNDTYPE_STRONG, HNDTYPE_REFCOUNTED,
     HNDTYPE_WEAK_NATIVE_COM, HNDTYPE_SIZEDREF, HNDTYPE_CROSSREFERENCE}

\* The handles after the scans of Ref_UpdatePointers(condemned, maxgen, sc, fn).
UpdatePointersResult(H, sc) ==
    TraceVariableHandles(ScanTables(H, ScanVisits(sc), 1, "UpdatePointer", 0, UpdatePointersTypes),
                         "UpdatePointer", sc, VHT_WEAK_SHORT + VHT_WEAK_LONG + VHT_STRONG)

Ref_UpdatePointers(w) ==
    RunRelocation(w, "Ref_UpdatePointers", UpdatePointersResult(handles, ScanContextOf(w)))

\* The handles after Ref_ScanDependentHandlesForRelocation(condemned, maxgen, sc, fn).
DhRelocationResult(H, sc) ==
    ScanTables(H, ScanVisits(sc), 1, "UpdateDependentHandle", 0, {HNDTYPE_DEPENDENT})

Ref_ScanDependentHandlesForRelocation(w) ==
    RunRelocation(w, "Ref_ScanDependentHandlesForRelocation",
                  DhRelocationResult(handles, ScanContextOf(w)))

\* The handles after Ref_ScanWeakInteriorPointersForRelocation(condemned, maxgen, sc, fn).
WeakInteriorRelocationResult(H, sc) ==
    ScanTables(H, ScanVisits(sc), 1, "UpdateWeakInteriorHandle", 0,
               {HNDTYPE_WEAK_INTERIOR_POINTER})

Ref_ScanWeakInteriorPointersForRelocation(w) ==
    RunRelocation(w, "Ref_ScanWeakInteriorPointersForRelocation",
                  WeakInteriorRelocationResult(handles, ScanContextOf(w)))

\* Every worker has returned: the collector goes on to what comes next.
RelocBarrier ==
    /\ RelocPhases[phase] \notin {"mark", "plan", "done"}
    /\ ran = Workers
    /\ phase' = phase + 1
    /\ ran' = {}
    /\ scanLog' = EmptyLog
    /\ UNCHANGED <<dirVars, notRelocVars, serverHeap, handles, handles0, promoted, thread_count,
                   dhc, dhw, pinned, plan>>

NextReloc ==
    \/ \E w \in 0 .. (MaxRelocThreads - 1) :
        \/ Ref_TracePinningRoots(w)
        \/ Ref_UpdatePinnedPointers(w)
        \/ Ref_UpdatePointers(w)
        \/ Ref_ScanDependentHandlesForRelocation(w)
        \/ Ref_ScanWeakInteriorPointersForRelocation(w)
    \/ Collector_Mark
    \/ Collector_Plan
    \/ RelocBarrier

SpecReloc == InitReloc /\ [][NextReloc]_vars

----------------------------------------------------------------------------
(* Properties of pinning and relocation (SpecReloc). *)

\* The handles whose object is reported with GC_CALL_PINNED by Ref_TracePinningRoots.
PinningHandle(h) ==
    \/ handles0[h].type = HNDTYPE_PINNED
    \/ handles0[h].type = HNDTYPE_VARIABLE /\ handles0[h].extra = VHT_PINNED

\* Every worker has returned from Ref_UpdatePinnedPointers.
PinnedRelocated == phase > PhaseOf("Ref_UpdatePinnedPointers")

C11_AsyncMoved ==
    /\ PinnedRelocated
    /\ \E h \in HandleIds :
        /\ handles0[h].type = HNDTYPE_ASYNCPINNED
        /\ handles0[h].obj # NULL
        /\ plan[handles0[h].obj] # handles0[h].obj
        /\ handles[h].obj = plan[handles0[h].obj]

\* Every worker has returned from each of the four relocation entry points.
RelocationDone == RelocPhases[phase] = "done"

\* C12: after one relocation pass (Ref_UpdatePinnedPointers, Ref_UpdatePointers,
\* Ref_ScanDependentHandlesForRelocation and Ref_ScanWeakInteriorPointersForRelocation,
\* each run once by every worker), every non-null handle of every type, Variable handles
\* of every strength included, has had the relocation callback applied to its slot
\* exactly once and holds the post-GC address of its object.
C12_RelocatedExactlyOnce ==
    RelocationDone =>
        \A h \in HandleIds :
            handles[h].obj # NULL =>
                /\ handles[h].nreloc = 1
                /\ handles[h].obj = plan[handles0[h].obj]

\* The pass is over for a Variable handle whose object was moved to where another
\* object had been.
C12_Witness ==
    /\ RelocationDone
    /\ \E h \in HandleIds :
        /\ handles0[h].type = HNDTYPE_VARIABLE
        /\ handles0[h].extra = VHT_WEAK_LONG
        /\ handles[h].obj # NULL
        /\ plan[handles0[h].obj] # handles0[h].obj
        /\ plan[handles0[h].obj] \in Objects
        /\ thread_count = MaxRelocThreads

----------------------------------------------------------------------------
(* The relocation of one weak interior pointer handle, for every address of its     *)
(* object, every interior pointer and every answer of the relocation callback.      *)

Words == 0 .. (WordSize - 1)

\* A weak interior pointer handle of the global bucket: its object and, in the extra
\* info, the interior pointer.
InteriorHandle(pPrimary, pInterior) ==
    Tracked([type |-> HNDTYPE_WEAK_INTERIOR_POINTER, bucket |-> 0, cpu |-> 0,
             obj |-> pPrimary, extra |-> pInterior])

InitInterior ==
    /\ serverHeap = FALSE
    /\ GcDirectory
    /\ thread_count = 1
    /\ handles \in {[h \in HandleIds |-> InteriorHandle(pPrimary, pInterior)] :
                        pPrimary \in Words \ {0}, pInterior \in Words}
    /\ handles0 = handles
    /\ promoted = {}
    /\ phase = PhaseOf("Ref_ScanWeakInteriorPointersForRelocation")
    /\ ran = {}
    /\ scanLog = EmptyLog
    /\ NoDependentScan
    /\ pinned = {}
    /\ plan \in [{handles[h].obj : h \in HandleIds} -> (Words \ {0}) \cup {NULL}]
    /\ NoSync
    /\ NoConcurrency
    /\ NoStart

NextInterior ==
    \/ Ref_ScanWeakInteriorPointersForRelocation(0)
    \/ RelocBarrier

SpecInterior == InitInterior /\ [][NextInterior]_vars

\* C13: when UpdateWeakInteriorHandle has run on a handle and the primary is not null
\* after the callback, the interior pointer was shifted by exactly new primary - old
\* primary, so interior - primary is the same as before in arithmetic modulo the word
\* size, whichever way the object moved; when the new primary is null, the interior
\* pointer is as it was.
C13_InteriorOffsetKept ==
    \A h \in HandleIds :
        handles[h].nreloc = 1 =>
            IF handles[h].obj # NULL
            THEN /\ handles[h].extra
                      = (handles0[h].extra + handles[h].obj - handles0[h].obj) % WordSize
                 /\ (handles[h].extra - handles[h].obj) % WordSize
                      = (handles0[h].extra - handles0[h].obj) % WordSize
            ELSE handles[h].extra = handles0[h].extra

\* The object moved down and the interior pointer wrapped around the end of the address
\* space.
C13_Witness ==
    \E h \in HandleIds :
        /\ handles[h].nreloc = 1
        /\ handles[h].obj # NULL
        /\ handles[h].obj < handles0[h].obj
        /\ handles0[h].extra < handles0[h].obj - handles[h].obj
        /\ handles[h].extra > handles0[h].extra

----------------------------------------------------------------------------
(* Properties of the rounds of Ref_ScanDependentHandlesForPromotion (SpecDh). *)

\* Every worker has returned false from the round.
AllReturnedFalse == \A w \in Workers : dhw[w].pc = "returned" /\ ~dhw[w].ret

\* C14: when the collector repeats rounds in which every worker runs
\* Ref_ScanDependentHandlesForPromotion on its stride, at the first round in which every
\* worker returns false every Dependent handle of the table with a promoted non-null
\* primary has a promoted secondary, the links of a chain being in any strides.
C14_RoundsReachFixPoint ==
    AllReturnedFalse =>
        \A h \in DhHandleIds :
            (handles[h].obj # NULL /\ IsPromoted(handles[h].obj)) => IsPromoted(handles[h].extra)

\* Two workers have returned false in a later round; the two links of a chain are in
\* different strides, and all three objects are promoted.
C14_Witness ==
    /\ thread_count = 2
    /\ AllReturnedFalse
    /\ phase >= 2
    /\ \E h, g \in DhHandleIds :
        /\ h \in StrideHandles(0) \ StrideHandles(1)
        /\ g \in StrideHandles(1) \ StrideHandles(0)
        /\ handles[h].obj # NULL
        /\ handles[h].extra # NULL
        /\ handles[g].obj = handles[h].extra
        /\ handles[g].extra \notin {NULL, handles[h].obj, handles[h].extra}
        /\ {handles[h].obj, handles[h].extra, handles[g].extra} \subseteq promoted

\* C15: Ref_ScanDependentHandlesForPromotion returns true if and only if the call
\* promoted a secondary in some iteration, the last one or an earlier one, and returns
\* false when the call promoted nothing.
C15_ReturnsWhetherPromoted ==
    \A w \in Workers : dhw[w].pc = "returned" => (dhw[w].ret <=> dhw[w].called)

\* A worker has returned true from a call whose last iteration promoted nothing.
C15_Witness ==
    \E w \in Workers :
        /\ dhw[w].pc = "returned"
        /\ dhw[w].ret
        /\ dhw[w].iters >= 2
        /\ ~dhc[Ref_GetDependentHandleContext(ScanContextOf(w))].m_fPromoted

----------------------------------------------------------------------------
(* Ref_UpdatePointers, one atomic operation at a time: the workers of a collection  *)
(* are inside it at the same time, and the collector starts the next collection     *)
(* when all of them have returned.                                                  *)

MaxSyncHeaps == 3

MaxGCs == 2

SyncWorkers == 0 .. (MaxSyncHeaps - 1)

\* g_theGCHeap->GetNumberOfHeaps(): the number of heaps, each with its worker.
GetNumberOfHeaps == thread_count

\* Interlocked::Increment(&uCount): the new value (the count stays far from the ends of
\* int32_t: it is reset when it reaches the number of heaps).
InterlockedIncrement(addend) == addend + 1

\* Interlocked::CompareExchange(&destination, exchange, comparand): the value stored.
InterlockedCompareExchange(destination, exchange, comparand) ==
    IF destination = comparand THEN exchange ELSE destination

ResetCount_Never(count) == count

\* Interlocked::CompareExchange(&uCount, 0, g_theGCHeap->GetNumberOfHeaps()).
ResetCount(count) == InterlockedCompareExchange(count, 0, GetNumberOfHeaps)

EnteringWorker == [pc |-> "enter", bDo |-> FALSE]

\* The table the collections relocate: a strong handle in each primitive of the global
\* bucket, and every object moving up by one address.
InitSync ==
    /\ serverHeap \in BOOLEAN
    /\ GcDirectory
    /\ thread_count \in (IF serverHeap THEN 1 .. MaxSyncHeaps ELSE {1})
    /\ handles = [h \in HandleIds |->
                    Tracked([type |-> HNDTYPE_STRONG, bucket |-> 0, cpu |-> 0, obj |-> 1,
                             extra |-> 0])]
    /\ handles0 = handles
    /\ promoted = Objects
    /\ phase = PhaseOf("Ref_UpdatePointers")
    /\ ran = {}
    /\ scanLog = EmptyLog
    /\ NoDependentScan
    /\ pinned = {}
    /\ plan = [o \in Objects |-> o + 1]
    /\ uCount = 0
    /\ sync = [w \in SyncWorkers |-> EnteringWorker]
    /\ nSync = 0
    /\ gcs = 0
    /\ NoConcurrency
    /\ NoStart

\* BOOL bDo = TRUE; if (IsServerHeap()) bDo = (Interlocked::Increment(&uCount) == 1);
UpdatePointers_Increment(w) ==
    /\ w \in Workers
    /\ sync[w].pc = "enter"
    /\ IF serverHeap
       THEN /\ uCount' = InterlockedIncrement(uCount)
            /\ sync' = [sync EXCEPT ![w] = [pc |-> "exchange", bDo |-> (uCount' = 1)]]
       ELSE /\ uCount' = uCount
            /\ sync' = [sync EXCEPT ![w] = [pc |-> "scan", bDo |-> TRUE]]
    /\ UNCHANGED <<dirVars, notSyncVars, serverHeap, handles, handles0, promoted, thread_count,
                   phase, ran, scanLog, dhc, dhw, nSync, gcs>>

\* Interlocked::CompareExchange(&uCount, 0, g_theGCHeap->GetNumberOfHeaps());
UpdatePointers_CompareExchange(w) ==
    /\ w \in Workers
    /\ sync[w].pc = "exchange"
    /\ uCount' = ResetCount(uCount)
    /\ sync' = [sync EXCEPT ![w].pc = "scan"]
    /\ UNCHANGED <<dirVars, notSyncVars, serverHeap, handles, handles0, promoted, thread_count,
                   phase, ran, scanLog, dhc, dhw, nSync, gcs>>

\* if (bDo) GCToEEInterface::SyncBlockCacheWeakPtrScan(...); then the scans of the
\* worker's stride, and the return.
UpdatePointers_Scan(w) ==
    /\ w \in Workers
    /\ sync[w].pc = "scan"
    /\ nSync' = IF sync[w].bDo THEN nSync + 1 ELSE nSync
    /\ handles' = UpdatePointersResult(handles, ScanContextOf(w))
    /\ ran' = ran \cup {w}
    /\ scanLog' = Logged(scanLog, ScanVisits(ScanContextOf(w)), w)
    /\ sync' = [sync EXCEPT ![w].pc = "returned"]
    /\ UNCHANGED <<dirVars, notSyncVars, serverHeap, handles0, promoted, thread_count, phase,
                   dhc, dhw, uCount, gcs>>

\* Every worker has returned: the collection ends, and the collector has the workers
\* call Ref_UpdatePointers again in the next one.
Collector_NextGC ==
    /\ \A w \in Workers : sync[w].pc = "returned"
    /\ gcs < MaxGCs
    /\ gcs' = gcs + 1
    /\ sync' = [w \in SyncWorkers |-> EnteringWorker]
    /\ nSync' = 0
    /\ handles' = handles0
    /\ ran' = {}
    /\ scanLog' = EmptyLog
    /\ UNCHANGED <<dirVars, notSyncVars, serverHeap, handles0, promoted, thread_count, phase,
                   dhc, dhw, uCount>>

NextSync ==
    \/ \E w \in SyncWorkers :
        \/ UpdatePointers_Increment(w)
        \/ UpdatePointers_CompareExchange(w)
        \/ UpdatePointers_Scan(w)
    \/ Collector_NextGC

SpecSync == InitSync /\ [][NextSync]_vars

\* Every worker of the collection has returned from Ref_UpdatePointers.
AllWorkersReturned == \A w \in Workers : sync[w].pc = "returned"

\* C16: in server mode, with each of the GetNumberOfHeaps() workers calling
\* Ref_UpdatePointers once per collection, under every interleaving of the increments
\* and the compare-exchanges exactly one worker per collection calls
\* SyncBlockCacheWeakPtrScan, uCount never exceeds the number of heaps, and uCount is 0
\* again when all workers have returned, in the first collection and in those after it.
C16_OneSyncScanPerGC ==
    serverHeap =>
        /\ uCount <= GetNumberOfHeaps
        /\ uCount >= 0
        /\ nSync <= 1
        /\ Cardinality({w \in Workers : sync[w].pc # "enter" /\ sync[w].bDo}) <= 1
        /\ AllWorkersReturned => nSync = 1 /\ uCount = 0

\* A later collection with every worker there can be is over; the worker that called
\* SyncBlockCacheWeakPtrScan was not worker 0.
C16_Witness ==
    /\ serverHeap
    /\ thread_count = MaxSyncHeaps
    /\ gcs >= 1
    /\ AllWorkersReturned
    /\ nSync = 1
    /\ ~sync[0].bDo
    /\ handles[1].nreloc = 1

----------------------------------------------------------------------------
(* The scans that depend on sc->concurrent: Ref_TraceNormalRoots, run by every       *)
(* worker, and Ref_ScanBridgeObjects, run by one thread.                             *)

ConcPhases == <<"Ref_TraceNormalRoots", "Ref_ScanBridgeObjects", "done">>

InitConc ==
    /\ serverHeap \in BOOLEAN
    /\ GcDirectory
    /\ thread_count \in (IF serverHeap THEN 1 .. MaxRelocThreads ELSE {1})
    /\ handles \in {[h \in HandleIds |-> Tracked(H[h])] : H \in HandleTables(HandleTypes)}
    /\ handles0 = handles
    /\ promoted \in SUBSET Objects
    /\ phase = 1
    /\ ran = {}
    /\ scanLog = EmptyLog
    /\ NoDependentScan
    /\ NoRelocation
    /\ NoSync
    /\ concurrent \in BOOLEAN
    /\ refcounted \in {{}, Objects}
    /\ bridge = NoBridges
    /\ collection = <<>>
    /\ NoStart

\* uint32_t types[] = { HNDTYPE_STRONG, HNDTYPE_SIZEDREF }, the first uTypeCount of them.
NormalRootTypes(uTypeCount) ==
    IF uTypeCount = 1 THEN {HNDTYPE_STRONG} ELSE {HNDTYPE_STRONG, HNDTYPE_SIZEDREF}

RefCountedPass_Always(sc) == TRUE

\* if (!sc->concurrent): whether Ref_TraceNormalRoots scans the ref-counted handles.
RefCountedPass(sc) == ~sc.concurrent

TraceNormalRootsResult_NoVariable(H, sc, uTypeCount) ==
    LET strong == ScanTables(H, ScanVisits(sc), 1, "PromoteObject", 0,
                             NormalRootTypes(uTypeCount))
    IN IF RefCountedPass(sc)
       THEN ScanTables(strong, ScanVisits(sc), 1, "PromoteRefCounted", 0, {HNDTYPE_REFCOUNTED})
       ELSE strong

\* The handles after Ref_TraceNormalRoots(condemned, maxgen, sc, fn), uTypeCount being 1
\* in a collection of every generation with no concurrent collection in progress.
TraceNormalRootsResult(H, sc, uTypeCount) ==
    LET strong == TraceVariableHandles(
                      ScanTables(H, ScanVisits(sc), 1, "PromoteObject", 0,
                                 NormalRootTypes(uTypeCount)),
                      "PromoteObject", sc, VHT_STRONG)
    IN IF RefCountedPass(sc)
       THEN ScanTables(strong, ScanVisits(sc), 1, "PromoteRefCounted", 0, {HNDTYPE_REFCOUNTED})
       ELSE strong

\* Worker w traces the normal roots: every promote call of the scan reaches the collector.
Ref_TraceNormalRoots(w) ==
    /\ ConcPhases[phase] = "Ref_TraceNormalRoots"
    /\ w \in Workers \ ran
    /\ \E uTypeCount \in {1, 2} :
        LET result == TraceNormalRootsResult(handles, ScanContextOf(w), uTypeCount)
        IN /\ handles' = result
           /\ promoted' = promoted \cup ReportedWith(result, {})
    /\ ran' = ran \cup {w}
    /\ scanLog' = Logged(scanLog, ScanVisits(ScanContextOf(w)), w)
    /\ UNCHANGED <<dirVars, notConcVars, serverHeap, handles0, thread_count, phase, dhc,
                   dhw, concurrent, refcounted, bridge, collection>>

\* Every worker has returned from Ref_TraceNormalRoots.
ConcBarrier ==
    /\ ConcPhases[phase] = "Ref_TraceNormalRoots"
    /\ ran = Workers
    /\ phase' = phase + 1
    /\ ran' = {}
    /\ scanLog' = EmptyLog
    /\ UNCHANGED <<dirVars, notConcVars, serverHeap, handles, handles0, promoted,
                   thread_count, dhc, dhw, concurrent, refcounted, bridge, collection>>

\* The objects GetBridgeObjectsForProcessing registered: those of the handles it was
\* called for that are not promoted.
RegisteredBridges(H) ==
    {H[h].obj : h \in {g \in DOMAIN H :
                          /\ \E c \in H[g].calls : c.callback = "GetBridgeObjectsForProcessing"
                          /\ ~IsPromoted(H[g].obj)}}

\* Ref_ScanBridgeObjects(condemned, maxgen, sc, numObjs): BridgeResetData, the scan of
\* every primitive for cross reference handles, ProcessBridgeObjects, and the call of
\* the host when there is something to hand over.
Ref_ScanBridgeObjects ==
    /\ ConcPhases[phase] = "Ref_ScanBridgeObjects"
    /\ LET result == ScanTables(handles, AllVisits, 1, "GetBridgeObjectsForProcessing", 0,
                                {HNDTYPE_CROSSREFERENCE})
       IN /\ handles' = result
          /\ bridge' = [registered |-> RegisteredBridges(result),
                        triggered |-> IF RegisteredBridges(result) # {}
                                      THEN {[callback |-> "TriggerClientBridgeProcessing",
                                             concurrent |-> concurrent]}
                                      ELSE {}]
    /\ phase' = phase + 1
    /\ UNCHANGED <<dirVars, notConcVars, serverHeap, handles0, promoted, thread_count,
                   ran, scanLog, dhc, dhw, concurrent, refcounted, collection>>

NextConc ==
    \/ \E w \in 0 .. (MaxRelocThreads - 1) : Ref_TraceNormalRoots(w)
    \/ ConcBarrier
    \/ Ref_ScanBridgeObjects

SpecConc == InitConc /\ [][NextConc]_vars

\* The callbacks called for handle h in scans whose sc->concurrent was true.
ConcurrentCalls(h) == {c.callback : c \in {d \in handles[h].calls : d.concurrent}}

\* C17: PromoteRefCounted is never called in a scan whose scan context has concurrent
\* true (Ref_TraceNormalRoots makes the ref-counted pass only when sc->concurrent is
\* false), so its assertion holds whenever it is called.
C17_NoConcurrentRefCounted ==
    \A h \in HandleIds : "PromoteRefCounted" \notin ConcurrentCalls(h)

\* Every worker of a concurrent collection has returned from Ref_TraceNormalRoots, and
\* the ref-counted handle of an object with references, not promoted, was left alone.
C17_Witness ==
    /\ concurrent
    /\ phase > 1
    /\ \E h \in HandleIds :
        /\ handles[h].type = HNDTYPE_REFCOUNTED
        /\ handles[h].obj # NULL
        /\ handles[h].obj \in refcounted \ promoted
        /\ handles[h].calls = {}

\* The ref-counted handle of an object was promoted by PromoteRefCounted in a collection
\* that is not concurrent.
C17_Promoted ==
    /\ ~concurrent
    /\ \E h \in HandleIds :
        /\ handles[h].type = HNDTYPE_REFCOUNTED
        /\ handles[h].marks # {}
        /\ handles[h].obj \in promoted

\* Ref_ScanBridgeObjects has returned.
BridgesScanned == ConcPhases[phase] = "done"

\* C18: when Ref_ScanBridgeObjects is called with a scan context whose concurrent flag is
\* true, the bridge callbacks are skipped: GetBridgeObjectsForProcessing is called for no
\* handle and the host is not called (TriggerClientBridgeProcessing).
C18_NoConcurrentBridgeCallbacks ==
    (BridgesScanned /\ concurrent) =>
        /\ \A h \in HandleIds : "GetBridgeObjectsForProcessing" \notin ConcurrentCalls(h)
        /\ bridge.triggered = {}

----------------------------------------------------------------------------
(* Ref_Initialize, one statement at a time, and Ref_InitializeHandleTableBucket with *)
(* its failures: every new (nothrow) and every HndCreateHandleTable gives memory or  *)
(* null.  A global pointer is TRUE when it holds the address of the allocation it is *)
(* for, FALSE when it is null.                                                       *)

NotAllocated == [news |-> 0, deletes |-> 0]

\* The allocation is there: made and not deleted.
Live(a) == a.news > a.deletes

\* new: the allocation is made.
New(a) == [a EXCEPT !.news = @ + 1]

\* delete, delete [] and HndDestroyHandleTable: the allocation is released.
Delete(a) == [a EXCEPT !.deletes = @ + 1]

\* The state before the call of Ref_Initialize: the static g_HandleTableMap is zero, no
\* bucket has a primitive array, nothing is allocated, every global pointer is null.
InitStart ==
    /\ serverHeap \in BOOLEAN
    /\ pBuckets = [c \in Chunks |-> EmptySlots]
    /\ dwMaxIndex = [c \in Chunks |-> 0]
    /\ pNext = [c \in Chunks |-> NULL]
    /\ liveChunks = {}
    /\ HandleTableIndex = [b \in Buckets |-> 0]
    /\ pTable = [b \in Buckets |-> <<>>]
    /\ bucketState = [b \in Buckets |-> "unused"]
    /\ thr = [t \in Threads |-> IdleThread]
    /\ nInit = 0
    /\ nRemove = 0
    /\ handles = <<>>
    /\ handles0 = <<>>
    /\ promoted = {}
    /\ thread_count = 1
    /\ phase = 0
    /\ ran = {}
    /\ scanLog = <<>>
    /\ dhc = <<>>
    /\ dhw = <<>>
    /\ NoRelocation
    /\ NoSync
    /\ NoConcurrency
    /\ mem = [pBuckets |-> NotAllocated, store |-> NotAllocated, dhc |-> NotAllocated,
              nodes |-> NotAllocated, arraysFreed |-> {},
              pTable |-> [b \in Buckets |-> NotAllocated],
              tables |-> [b \in Buckets |-> [n \in CpuRange |-> NotAllocated]]]
    /\ glob = [pBuckets |-> FALSE, store |-> FALSE, dhc |-> FALSE]
    /\ ri = [pc |-> "pBuckets", pBuckets |-> FALSE, uCPUindex |-> 0, suppress |-> FALSE,
             result |-> FALSE, failed |-> "none"]

\* What neither Ref_Initialize nor Ref_InitializeHandleTableBucket touches.
notStartVars == <<serverHeap, handles, handles0, promoted, thread_count, phase, ran,
                  scanLog, dhc, dhw, relocVars, syncVars, concVars, nRemove>>

\* What of the directory Ref_Initialize leaves alone until it publishes the bucket.
calleeVars == <<pNext, liveChunks, HandleTableIndex, thr, nInit>>

\* pBuckets = new (nothrow) HandleTableBucket*[INITIAL_HANDLE_TABLE_ARRAY_SIZE];
\* if (pBuckets == NULL) return false; ZeroMemory(pBuckets, ...).
RefInit_AllocBuckets ==
    /\ ri.pc = "pBuckets"
    /\ \E ok \in BOOLEAN :
        IF ok
        THEN /\ mem' = [mem EXCEPT !.pBuckets = New(@)]
             /\ ri' = [ri EXCEPT !.pBuckets = TRUE, !.pc = "store"]
        ELSE /\ mem' = mem
             /\ ri' = [ri EXCEPT !.pc = "returned", !.result = FALSE, !.failed = "pBuckets"]
    /\ UNCHANGED <<notStartVars, calleeVars, pBuckets, dwMaxIndex, pTable, bucketState, glob>>

\* g_gcGlobalHandleStore = new (nothrow) GCHandleStore();
\* if (g_gcGlobalHandleStore == NULL) { delete[] pBuckets; return false; }
\* then pBucket->HandleTableIndex = 0 and the holder of the bucket.
RefInit_AllocStore ==
    /\ ri.pc = "store"
    /\ \E ok \in BOOLEAN :
        IF ok
        THEN /\ mem' = [mem EXCEPT !.store = New(@)]
             /\ glob' = [glob EXCEPT !.store = TRUE]
             /\ ri' = [ri EXCEPT !.pc = "pTable"]
        ELSE /\ mem' = [mem EXCEPT !.pBuckets = Delete(@)]
             /\ glob' = [glob EXCEPT !.store = FALSE]
             /\ ri' = [ri EXCEPT !.pc = "returned", !.result = FALSE, !.failed = "store"]
    /\ UNCHANGED <<notStartVars, calleeVars, pBuckets, dwMaxIndex, pTable, bucketState>>

\* pBucket->pTable = new (nothrow) HHANDLETABLE[n_slots];
\* if (pBucket->pTable == NULL) goto CleanupAndFail; ZeroMemory(pBucket->pTable, ...).
RefInit_AllocTable ==
    /\ ri.pc = "pTable"
    /\ \E ok \in BOOLEAN :
        IF ok
        THEN /\ mem' = [mem EXCEPT !.pTable[0] = New(@)]
             /\ pTable' = [pTable EXCEPT ![0] = [n \in CpuRange |-> NULL]]
             /\ ri' = [ri EXCEPT !.pc = "create", !.uCPUindex = 0]
        ELSE /\ mem' = mem
             /\ pTable' = [pTable EXCEPT ![0] = <<>>]
             /\ ri' = [ri EXCEPT !.pc = "CleanupAndFail", !.failed = "pTable"]
    /\ UNCHANGED <<notStartVars, calleeVars, pBuckets, dwMaxIndex, bucketState, glob>>

\* One turn of the loop: pBucket->pTable[uCPUindex] = HndCreateHandleTable(...);
\* if (pBucket->pTable[uCPUindex] == NULL) goto CleanupAndFail;
\* HndSetHandleTableIndex(pBucket->pTable[uCPUindex], 0).
RefInit_CreateTable ==
    /\ ri.pc = "create"
    /\ ri.uCPUindex < getNumberOfSlots
    /\ \E ok \in BOOLEAN :
        IF ok
        THEN /\ mem' = [mem EXCEPT !.tables[0][ri.uCPUindex] = New(@)]
             /\ pTable' = [pTable EXCEPT ![0][ri.uCPUindex] = 0]
             /\ ri' = [ri EXCEPT !.uCPUindex = @ + 1]
        ELSE /\ mem' = mem
             /\ pTable' = pTable
             /\ ri' = [ri EXCEPT !.pc = "CleanupAndFail", !.failed = "table"]
    /\ UNCHANGED <<notStartVars, calleeVars, pBuckets, dwMaxIndex, bucketState, glob>>

\* pBuckets[0] = pBucket; bucketHolder.SuppressRelease(); g_HandleTableMap.pBuckets =
\* pBuckets; g_HandleTableMap.dwMaxIndex = INITIAL_HANDLE_TABLE_ARRAY_SIZE; pNext = NULL.
RefInit_Publish ==
    /\ ri.pc = "create"
    /\ ri.uCPUindex >= getNumberOfSlots
    /\ pBuckets' = [pBuckets EXCEPT ![0][0] = 0]
    /\ bucketState' = [bucketState EXCEPT ![0] = "installed"]
    /\ dwMaxIndex' = [dwMaxIndex EXCEPT ![0] = INITIAL_HANDLE_TABLE_ARRAY_SIZE]
    /\ pNext' = [pNext EXCEPT ![0] = NULL]
    /\ glob' = [glob EXCEPT !.pBuckets = ri.pBuckets]
    /\ ri' = [ri EXCEPT !.suppress = TRUE, !.pc = "dhc"]
    /\ UNCHANGED <<notStartVars, liveChunks, HandleTableIndex, thr, nInit, pTable, mem>>

\* g_pDependentHandleContexts = new (nothrow) DhContext[n_slots];
\* if (g_pDependentHandleContexts == NULL) goto CleanupAndFail; return true;
RefInit_AllocContexts ==
    /\ ri.pc = "dhc"
    /\ \E ok \in BOOLEAN :
        IF ok
        THEN /\ mem' = [mem EXCEPT !.dhc = New(@)]
             /\ glob' = [glob EXCEPT !.dhc = TRUE]
             /\ ri' = [ri EXCEPT !.pc = "holder", !.result = TRUE]
        ELSE /\ mem' = mem
             /\ glob' = [glob EXCEPT !.dhc = FALSE]
             /\ ri' = [ri EXCEPT !.pc = "CleanupAndFail", !.failed = "dhc"]
    /\ UNCHANGED <<notStartVars, calleeVars, pBuckets, dwMaxIndex, pTable, bucketState>>

\* CleanupAndFail: if (pBuckets != NULL) delete[] pBuckets;
Cleanup_Buckets ==
    /\ ri.pc = "CleanupAndFail"
    /\ mem' = IF ri.pBuckets THEN [mem EXCEPT !.pBuckets = Delete(@)] ELSE mem
    /\ ri' = [ri EXCEPT !.pc = "cleanup_store"]
    /\ UNCHANGED <<notStartVars, calleeVars, pBuckets, dwMaxIndex, pTable, bucketState, glob>>

\* if (g_gcGlobalHandleStore != NULL) delete g_gcGlobalHandleStore; return false;
Cleanup_Store ==
    /\ ri.pc = "cleanup_store"
    /\ mem' = IF glob.store THEN [mem EXCEPT !.store = Delete(@)] ELSE mem
    /\ ri' = [ri EXCEPT !.pc = "holder", !.result = FALSE]
    /\ UNCHANGED <<notStartVars, calleeVars, pBuckets, dwMaxIndex, pTable, bucketState, glob>>

RECURSIVE DestroyTables(_, _, _, _)
\* for (n = 0; n < m_slots; n++) if (m_bucket->pTable[n]) HndDestroyHandleTable(...),
\* where tbl is the array m_bucket->pTable of bucket b.
DestroyTables(m, b, tbl, n) ==
    IF n >= getNumberOfSlots THEN m
    ELSE DestroyTables(IF tbl[n] # NULL THEN [m EXCEPT !.tables[b][n] = Delete(@)] ELSE m,
                       b, tbl, n + 1)

\* What the read of m_bucket->pTable may give when the field holds tbl.  The global
\* bucket is inside the global handle store: once that is deleted, the read finds what
\* was there, or what the allocator has left there.
ReadBucketTable(m, b, tbl) ==
    IF b = 0 /\ ~Live(m.store) THEN {tbl # <<>>, FALSE} ELSE {tbl # <<>>}

Holder_Released_Leak(m, b, tbl, seen) == m

\* ~HandleTableBucketHolder, when release is not suppressed and m_bucket->pTable was read
\* as non-null (seen): the primitives are destroyed and the array is deleted.
Holder_Released(m, b, tbl, seen) ==
    IF seen /\ tbl # <<>> THEN [DestroyTables(m, b, tbl, 0) EXCEPT !.pTable[b] = Delete(@)] ELSE m

\* The return of Ref_Initialize: the destructor of the holder runs.
Holder_Release ==
    /\ ri.pc = "holder"
    /\ IF ri.suppress
       THEN mem' = mem
       ELSE \E seen \in ReadBucketTable(mem, 0, pTable[0]) :
                mem' = Holder_Released(mem, 0, pTable[0], seen)
    /\ ri' = [ri EXCEPT !.pc = "returned"]
    /\ UNCHANGED <<notStartVars, calleeVars, pBuckets, dwMaxIndex, pTable, bucketState, glob>>

\* The primitive array of a bucket whose primitives below k were created.
TableUpTo(k) == [n \in CpuRange |-> IF n < k THEN NoIndex ELSE NULL]

\* The locals of a call of Ref_InitializeHandleTableBucket, and with them whether the
\* call has linked a chunk to the chain so far.
CallLocals(locals) ==
    [f \in DOMAIN locals \cup {"linked"} |-> IF f = "linked" THEN FALSE ELSE locals[f]]

\* Lines 757-782 of Ref_InitializeHandleTableBucket with their failures: the array is not
\* allocated (k = -1), the primitive k is not created, or all is created
\* (k = n_slots).  A return before the loop runs the destructor of the holder.
InitBucket_Create(t) ==
    /\ ri.pc = "returned"
    /\ ri.result
    /\ thr[t].pc = "idle"
    /\ nInit < MaxInitCalls
    /\ LET b == nInit + 1 IN
        /\ bucketState[b] = "unused"
        /\ nInit' = nInit + 1
        /\ \E k \in -1 .. getNumberOfSlots :
            LET tbl == IF k = -1 THEN <<>> ELSE TableUpTo(k)
                made == [mem EXCEPT !.pTable[b] = IF k = -1 THEN @ ELSE New(@),
                                    !.tables[b] = [n \in CpuRange |->
                                                    IF n < k THEN New(@[n]) ELSE @[n]]] IN
            /\ pTable' = [pTable EXCEPT ![b] = tbl]
            /\ IF k = getNumberOfSlots
               THEN /\ mem' = made
                    /\ bucketState' = [bucketState EXCEPT ![b] = "initializing"]
                    /\ thr' = [thr EXCEPT ![t] = CallLocals([IdleThread EXCEPT !.pc = "scan",
                                    !.op = "init", !.bucket = b, !.walk = 0, !.last = NULL,
                                    !.offset = 0, !.i = 0,
                                    !.startChunks = IF DirectoryFull THEN Len(Chain) ELSE 0])]
               ELSE /\ \E seen \in ReadBucketTable(made, b, tbl) :
                            mem' = Holder_Released(made, b, tbl, seen)
                    /\ bucketState' = [bucketState EXCEPT ![b] = "failed"]
                    /\ thr' = [thr EXCEPT ![t] = CallLocals([IdleThread EXCEPT !.pc = "done",
                                    !.op = "init", !.bucket = b, !.result = FALSE,
                                    !.startChunks = IF DirectoryFull THEN Len(Chain) ELSE 0])]
    /\ UNCHANGED <<notStartVars, pBuckets, dwMaxIndex, pNext, liveChunks, HandleTableIndex,
                   glob, ri>>

\* Lines 807-818: no free slot, and the new chunk is not had: new HandleTableMap gives
\* null (node = FALSE), or it gives a node, the node's pBuckets is not had and the node is
\* deleted.  The return runs the destructor of the holder.
InitBucket_NewMapFails(t) ==
    /\ thr[t].pc = "scan"
    /\ thr[t].walk = NULL
    /\ \E node \in BOOLEAN :
        LET b == thr[t].bucket
            made == IF node THEN [mem EXCEPT !.nodes = Delete(New(@))] ELSE mem IN
        /\ \E seen \in ReadBucketTable(made, b, pTable[b]) :
                mem' = Holder_Released(made, b, pTable[b], seen)
        /\ bucketState' = [bucketState EXCEPT ![b] = "failed"]
        /\ thr' = [thr EXCEPT ![t].pc = "done", ![t].result = FALSE]
    /\ UNCHANGED <<notStartVars, pBuckets, dwMaxIndex, pNext, liveChunks, HandleTableIndex,
                   pTable, nInit, glob, ri>>

\* Lines 825-832, as InitBucket_Link, the thread whose compare-exchange on last->pNext
\* wins being noted as having linked a chunk.
InitBucket_LinkOrDiscard(t) ==
    /\ thr[t].pc = "link"
    /\ LET last == thr[t].last
           m == thr[t].newMap IN
       IF pNext[last] = NULL
       THEN /\ pNext' = [pNext EXCEPT ![last] = CompareExchangePointer(@, m, NULL)]
            /\ thr' = [thr EXCEPT ![t].pc = "scan", ![t].walk = m, ![t].newMap = NULL,
                                  ![t].offset = dwMaxIndex[last], ![t].i = 0,
                                  ![t].linked = TRUE]
            /\ UNCHANGED <<liveChunks, pBuckets, dwMaxIndex>>
       ELSE /\ DiscardNewMap(m)
            /\ thr' = [thr EXCEPT ![t].pc = "scan", ![t].walk = pNext[last], ![t].newMap = NULL,
                                  ![t].offset = dwMaxIndex[last], ![t].i = 0]
            /\ UNCHANGED pNext
    /\ UNCHANGED <<notStartVars, HandleTableIndex, pTable, bucketState, nInit, startVars>>

\* Ref_Shutdown, called when the start has succeeded and no thread is inside a call:
\* the dependent-context array is deleted and its pointer nulled; if
\* g_HandleTableMap.pBuckets is set, delete [] walk->pBuckets for every chunk of the
\* chain (the nodes themselves are not deleted), then pNext, dwMaxIndex and pBuckets of
\* the head are nulled.  No primitive is touched.
Ref_Shutdown ==
    /\ ri.pc = "returned"
    /\ ri.result
    /\ \A t \in Threads : thr[t].pc = "idle"
    /\ mem' = [mem EXCEPT !.dhc = IF glob.dhc THEN Delete(@) ELSE @,
                          !.pBuckets = IF glob.pBuckets THEN Delete(@) ELSE @,
                          !.arraysFreed = IF glob.pBuckets THEN ChainSet \ {0} ELSE @]
    /\ glob' = [glob EXCEPT !.dhc = FALSE,
                            !.pBuckets = FALSE]
    /\ pNext' = IF glob.pBuckets THEN [pNext EXCEPT ![0] = NULL] ELSE pNext
    /\ dwMaxIndex' = IF glob.pBuckets THEN [dwMaxIndex EXCEPT ![0] = 0] ELSE dwMaxIndex
    /\ ri' = [ri EXCEPT !.pc = "shutdown"]
    /\ UNCHANGED <<notStartVars, pBuckets, liveChunks, HandleTableIndex, pTable, bucketState,
                   thr, nInit>>

StartStep(t) ==
    \/ InitBucket_Create(t)
    \/ InitBucket_ScanSlot(t)
    \/ InitBucket_Cas(t)
    \/ InitBucket_NextChunk(t)
    \/ InitBucket_NewMap(t)
    \/ InitBucket_NewMapFails(t)
    \/ InitBucket_LinkOrDiscard(t)
    \/ Return(t)

NextStart ==
    \/ RefInit_AllocBuckets
    \/ RefInit_AllocStore
    \/ RefInit_AllocTable
    \/ RefInit_CreateTable
    \/ RefInit_Publish
    \/ RefInit_AllocContexts
    \/ Cleanup_Buckets
    \/ Cleanup_Store
    \/ Holder_Release
    \/ Ref_Shutdown
    \/ \E t \in Threads : StartStep(t)

\* The process starts the handle layer, and when that has succeeded its threads create
\* buckets; any allocation may fail.
SpecStart == InitStart /\ [][NextStart]_vars

\* The allocations Ref_Initialize makes.
Allocations ==
    {mem.pBuckets, mem.store, mem.dhc, mem.pTable[0]} \cup {mem.tables[0][n] : n \in CpuRange}

\* Ref_Initialize has returned false.
ReturnedFalse == ri.pc = "returned" /\ ~ri.result

\* C19: when Ref_Initialize returns false, whichever allocation failed, every allocation
\* made earlier in the call has been released exactly once, g_HandleTableMap.pBuckets is
\* null, and no global pointer holds the address of freed memory.
C19_FailureLeavesNothing ==
    ReturnedFalse =>
        /\ \A a \in Allocations : a.deletes = a.news
        /\ ~glob.pBuckets
        /\ glob.store => Live(mem.store)
        /\ glob.dhc => Live(mem.dhc)

\* The call of Ref_InitializeHandleTableBucket thread t made has returned false.
FailedCall(t) == thr[t].pc = "done" /\ thr[t].op = "init" /\ ~thr[t].result

\* No slot of any chunk holds bucket b.
NoSlotRefers(b) == \A c \in Chunks : \A s \in SlotRange : pBuckets[c][s] # b

\* The primitive array of bucket b and every primitive created for it are released, once.
Released(b) ==
    /\ mem.pTable[b].deletes = mem.pTable[b].news
    /\ \A n \in CpuRange : mem.tables[b][n].deletes = mem.tables[b][n].news

\* No chunk is allocated that is neither in the chain nor in the hands of a thread that
\* is about to link it, and every node whose slot array was not had is deleted.
NoChunkLeft ==
    /\ mem.nodes.deletes = mem.nodes.news
    /\ liveChunks \subseteq (ChainSet \cup {thr[u].newMap : u \in Threads})

\* What a failed call leaves, the chain apart.
FailureLeaves(t) ==
    /\ NoSlotRefers(thr[t].bucket)
    /\ NoChunkLeft
    /\ Released(thr[t].bucket)
    /\ C10_ChainWellFormed

\* C20 as stated: when Ref_InitializeHandleTableBucket returns false, no directory slot
\* refers to the bucket, the chunk chain is as the call found it (the call has linked no
\* chunk) and well formed, any partially allocated chunk is freed, and every primitive
\* created for the bucket during the call has been destroyed.
C20_AsStated ==
    \A t \in Threads : FailedCall(t) => (FailureLeaves(t) /\ ~thr[t].linked)

\* C20, amended: the step in which Ref_InitializeHandleTableBucket fails changes nothing
\* of the chunk chain, and when the call has returned false no directory slot refers to
\* the bucket, the chain is well formed, any partially allocated chunk is freed, and the
\* primitive array and every primitive created for the bucket have been released once.
\* (A chunk the call linked before it failed stays linked.)
C20_FailureReleasesBucket ==
    [][\A t \in Threads :
          FailedCall(t)' =>
              /\ FailureLeaves(t)'
              /\ ~FailedCall(t) => UNCHANGED <<pBuckets, dwMaxIndex, pNext, liveChunks>>]_vars

\* In server mode, a call has failed for want of a new chunk's slot array (the node was
\* had, and deleted) after it had linked a chunk that the other thread then filled; its
\* three primitives were created and have been destroyed.
C20_Witness ==
    /\ serverHeap
    /\ mem.nodes = [news |-> 1, deletes |-> 1]
    /\ \E t \in Threads :
        /\ FailedCall(t)
        /\ thr[t].linked
        /\ Len(Chain) = 2
        /\ mem.pTable[thr[t].bucket] = [news |-> 1, deletes |-> 1]
        /\ \A n \in CpuRange : mem.tables[thr[t].bucket][n] = [news |-> 1, deletes |-> 1]

\* Ref_Shutdown has returned.
ShutDown == ri.pc = "shutdown"

\* C23: after Ref_Shutdown the slot array of the head, the slot array and the node of
\* every chunk the directory grew by, and the dependent-context array are freed, and no
\* primitive of a bucket that was in the directory has been destroyed.
C23_ShutdownFreesChunks ==
    ShutDown =>
        /\ ~Live(mem.pBuckets)
        /\ ~Live(mem.dhc)
        /\ \A c \in HeapChunks :
              (c \in liveChunks \/ c \in mem.arraysFreed) =>
                  (c \in mem.arraysFreed /\ c \notin liveChunks)
        /\ \A b \in Buckets : bucketState[b] = "installed" =>
              \A n \in CpuRange : Live(mem.tables[b][n])

----------------------------------------------------------------------------
(* The walk of the profiler and of event tracing: Ref_ScanHandlesForProfilerAndETW,  *)
(* run by one thread on every primitive of every bucket.                             *)

\* A handle with the events the walk emitted for it.
Visited(hnd) ==
    [f \in DOMAIN Tracked(hnd) \cup {"events"} |-> IF f = "events" THEN 0 ELSE Tracked(hnd)[f]]

InitProf ==
    /\ serverHeap \in BOOLEAN
    /\ GcDirectory
    /\ thread_count = 1
    /\ handles \in {[h \in HandleIds |-> Visited(H[h])] : H \in HandleTables(HandleTypes)}
    /\ handles0 = handles
    /\ promoted = {}
    /\ phase = 1
    /\ ran = {}
    /\ scanLog = EmptyLog
    /\ NoDependentScan
    /\ NoRelocation
    /\ NoSync
    /\ concurrent = FALSE
    /\ refcounted \in {{}, Objects}
    /\ bridge = NoBridges
    /\ collection = <<>>
    /\ NoStart

\* uint32_t types[] of Ref_ScanHandlesForProfilerAndETW.
ProfilerTypes ==
    {HNDTYPE_WEAK_SHORT, HNDTYPE_WEAK_LONG, HNDTYPE_STRONG, HNDTYPE_REFCOUNTED,
     HNDTYPE_WEAK_NATIVE_COM, HNDTYPE_PINNED, HNDTYPE_VARIABLE, HNDTYPE_ASYNCPINNED,
     HNDTYPE_SIZEDREF, HNDTYPE_WEAK_INTERIOR_POINTER, HNDTYPE_CROSSREFERENCE}

\* TraceVariableHandlesBySingleThread: the scan of the HNDTYPE_VARIABLE handles of every
\* primitive of every bucket.
TraceVariableHandlesBySingleThread(H, pfnTrace, uEnableMask) ==
    ScanTables(H, AllVisits, 1, "VariableTraceDispatcher",
               [lEnableMask |-> uEnableMask, pfnTrace |-> pfnTrace], {HNDTYPE_VARIABLE})

\* The handles after Ref_ScanHandlesForProfilerAndETW(maxgen, lp1, fn): the scan of the
\* types of the list, then the scan of the variable handles.
ProfilerWalkResult(H) ==
    TraceVariableHandlesBySingleThread(
        ScanTables(H, AllVisits, 1, "ScanPointerForProfilerAndETW", 0, ProfilerTypes),
        "ScanPointerForProfilerAndETW", VHT_WEAK_SHORT + VHT_WEAK_LONG + VHT_STRONG)

Ref_ScanHandlesForProfilerAndETW ==
    /\ phase = 1
    /\ handles' = ProfilerWalkResult(handles)
    /\ phase' = 2
    /\ UNCHANGED <<dirVars, extVars, serverHeap, handles0, promoted, thread_count, ran,
                   scanLog, dhc, dhw>>

NextProf == Ref_ScanHandlesForProfilerAndETW

SpecProf == InitProf /\ [][NextProf]_vars

\* C25: after one call of Ref_ScanHandlesForProfilerAndETW the event has been emitted
\* exactly once for every handle of a type of its type list, in whatever primitive of
\* whatever bucket, the Variable handles of every strength included.
C25_OneEventPerHandle ==
    phase = 2 =>
        \A h \in HandleIds : handles[h].type \in ProfilerTypes => handles[h].events = 1

----------------------------------------------------------------------------
(* The mutator changes the strength of a Variable handle: UpdateVariableHandleType   *)
(* and CompareExchangeVariableHandleType, in a build without assertions.             *)

\* The values a caller may pass as a type: the four strengths, and values that are none.
TypeArguments == VariableHandleTypes \cup {0, VHT_WEAK_SHORT + VHT_PINNED}

\* IS_VALID_VHT_VALUE(type): the value is one of the four strengths.
IS_VALID_VHT_VALUE(type) == type \in VariableHandleTypes

InitVht ==
    /\ serverHeap \in BOOLEAN
    /\ GcDirectory
    /\ thread_count = 1
    /\ handles \in HandleTables({HNDTYPE_VARIABLE})
    /\ handles0 = handles
    /\ promoted = {}
    /\ phase = 1
    /\ ran = {}
    /\ scanLog = EmptyLog
    /\ NoDependentScan
    /\ NoExtras

\* What no change of a handle's strength touches.
notVhtVars == <<dirVars, extVars, serverHeap, handles0, promoted, thread_count, phase, ran,
                scanLog, dhc, dhw>>

\* UpdateVariableHandleType(handle, type): return on a value that is not valid (the
\* assertion is compiled out), else HndSetHandleExtraInfo(handle, HNDTYPE_VARIABLE, type).
UpdateVariableHandleType(h, type) ==
    /\ handles[h].type = HNDTYPE_VARIABLE
    /\ handles' = IF ~IS_VALID_VHT_VALUE(type) THEN handles
                  ELSE [handles EXCEPT ![h].extra = type]
    /\ UNCHANGED notVhtVars

\* HndCompareExchangeHandleExtraInfo(handle, HNDTYPE_VARIABLE, oldType, newType): the
\* extra info becomes newType if it was oldType.
HndCompareExchangeHandleExtraInfo(extra, oldType, newType) ==
    IF extra = oldType THEN newType ELSE extra

\* CompareExchangeVariableHandleType(handle, oldType, newType): the assertion on the two
\* types is compiled out, and the exchange is made.
CompareExchangeVariableHandleType(h, oldType, newType) ==
    /\ handles[h].type = HNDTYPE_VARIABLE
    /\ handles' = [handles EXCEPT ![h].extra =
                       HndCompareExchangeHandleExtraInfo(@, oldType, newType)]
    /\ UNCHANGED notVhtVars

NextVht ==
    \E h \in HandleIds :
        \/ \E type \in TypeArguments : UpdateVariableHandleType(h, type)
        \/ \E oldType, newType \in TypeArguments :
               CompareExchangeVariableHandleType(h, oldType, newType)

SpecVht == InitVht /\ [][NextVht]_vars

\* C26: whatever the calls of UpdateVariableHandleType and
\* CompareExchangeVariableHandleType, with whatever type arguments, the extra info of a
\* Variable handle is one of the four strengths: a call with a value outside the set
\* leaves it as it was.
C26_StrengthInClosedSet ==
    \A h \in HandleIds :
        handles[h].type = HNDTYPE_VARIABLE => handles[h].extra \in VariableHandleTypes

----------------------------------------------------------------------------
(* Dependent handles between the mutator and the collector: the mutator writes the   *)
(* primary and the secondary, a collection clears and relocates them.                *)

\* How many writes the mutator makes in all.
MaxDepWrites == 2

\* A Dependent handle as the code that makes handles leaves it: no secondary without a
\* primary.
PrimaryForSecondary(hnd) == hnd.extra = NULL \/ hnd.obj # NULL

InitDep ==
    /\ serverHeap \in BOOLEAN
    /\ GcDirectory
    /\ thread_count = 1
    /\ handles \in {[h \in HandleIds |-> Tracked(H[h])] :
                        H \in {G \in HandleTables({HNDTYPE_DEPENDENT}) :
                                  \A h \in HandleIds : PrimaryForSecondary(G[h])}}
    /\ handles0 = handles
    /\ promoted \in SUBSET Objects
    /\ phase = 0
    /\ ran = {}
    /\ scanLog = EmptyLog
    /\ NoDependentScan
    /\ NoExtras

\* What neither the mutator's writes nor the collection touch.
notDepVars == <<dirVars, notRelocVars, serverHeap, handles0, promoted, thread_count, ran,
                scanLog, dhc, dhw, pinned>>

\* The mutator stores an object or null in the primary slot of the handle.
HndAssignHandle(h, value) ==
    /\ plan = <<>>
    /\ phase < MaxDepWrites
    /\ handles' = [handles EXCEPT ![h].obj = value]
    /\ phase' = phase + 1
    /\ UNCHANGED <<notDepVars, plan>>

\* SetDependentHandleSecondary(handle, objref): the write barrier for a value that is
\* not null, then HndSetHandleExtraInfo(handle, HNDTYPE_DEPENDENT, value).
SetDependentHandleSecondary(h, value) ==
    /\ plan = <<>>
    /\ phase < MaxDepWrites
    /\ handles' = [handles EXCEPT ![h].extra = value]
    /\ phase' = phase + 1
    /\ UNCHANGED <<notDepVars, plan>>

\* The collection, the mutator suspended, up to its plan: ClearDependentHandle on every
\* Dependent handle, and the plan of the relocation.
Dep_Clearing ==
    /\ plan = <<>>
    /\ \A h \in HandleIds : handles[h].nreloc = 0
    /\ handles' = DhClearingResult(handles, WholeScan)
    /\ plan' \in Plans
    /\ UNCHANGED <<notDepVars, phase>>

\* The rest of the collection: UpdateDependentHandle on every Dependent handle.
Dep_Relocation ==
    /\ plan # <<>>
    /\ \A h \in HandleIds : handles[h].nreloc = 0
    /\ handles' = DhRelocationResult(handles, WholeScan)
    /\ plan' = plan
    /\ UNCHANGED <<notDepVars, phase>>

\* The mutator runs again.
Dep_Resume ==
    /\ plan # <<>>
    /\ \E h \in HandleIds : handles[h].nreloc > 0
    /\ plan' = <<>>
    /\ UNCHANGED <<notDepVars, phase, handles>>

NextDep ==
    \/ \E h \in HandleIds : \E value \in Objects \cup {NULL} : HndAssignHandle(h, value)
    \/ \E h \in HandleIds : \E value \in Objects \cup {NULL} : SetDependentHandleSecondary(h, value)
    \/ Dep_Clearing
    \/ Dep_Relocation
    \/ Dep_Resume

SpecDep == InitDep /\ [][NextDep]_vars

\* C27: whatever the mutator writes (the primary, SetDependentHandleSecondary) and
\* whatever the callbacks of a collection do, a Dependent handle whose primary is null
\* has a null secondary, as TraceDependentHandle asserts.
C27_NullPrimaryNullSecondary ==
    \A h \in HandleIds : handles[h].obj = NULL => handles[h].extra = NULL

----------------------------------------------------------------------------
(* A weak interior pointer handle through a collection: the weak check of           *)
(* Ref_CheckReachable, the plan, and the relocation of the interior pointer.        *)

\* The steps of the collection in their order.
WipPhases == <<"Ref_CheckReachable", "plan", "Ref_ScanWeakInteriorPointersForRelocation",
               "done">>

\* The largest offset of an interior pointer in its object.
MaxOffset == 3

InitWip ==
    /\ serverHeap = FALSE
    /\ GcDirectory
    /\ thread_count = 1
    /\ handles \in {[h \in HandleIds |-> InteriorHandle(pPrimary, (pPrimary + offset) % WordSize)] :
                        pPrimary \in Words \ {0}, offset \in 0 .. MaxOffset}
    /\ handles0 = handles
    /\ promoted \in SUBSET {handles[h].obj : h \in HandleIds}
    /\ phase = 1
    /\ ran = {}
    /\ scanLog = EmptyLog
    /\ NoDependentScan
    /\ NoExtras

notWipVars == <<dirVars, notRelocVars, serverHeap, handles0, promoted, thread_count, ran,
                scanLog, dhc, dhw, pinned>>

\* Ref_CheckReachable(condemned, maxgen, sc) by the one thread of the collection.
Wip_CheckReachable ==
    /\ WipPhases[phase] = "Ref_CheckReachable"
    /\ handles' = CheckReachableResult(handles, WholeScan)
    /\ phase' = phase + 1
    /\ UNCHANGED <<notWipVars, plan>>

\* The collector makes its plan: a new address for the address of the object.
Wip_Plan ==
    /\ WipPhases[phase] = "plan"
    /\ plan' \in [{handles0[h].obj : h \in HandleIds} -> Words \ {0}]
    /\ phase' = phase + 1
    /\ UNCHANGED <<notWipVars, handles>>

\* Ref_ScanWeakInteriorPointersForRelocation(condemned, maxgen, sc, fn).
Wip_Relocation ==
    /\ WipPhases[phase] = "Ref_ScanWeakInteriorPointersForRelocation"
    /\ handles' = WeakInteriorRelocationResult(handles, WholeScan)
    /\ phase' = phase + 1
    /\ UNCHANGED <<notWipVars, plan>>

NextWip ==
    \/ Wip_CheckReachable
    \/ Wip_Plan
    \/ Wip_Relocation

SpecWip == InitWip /\ [][NextWip]_vars

\* The offset of the interior pointer of the handle in its object, as the handle was made.
FixedOffset(h) == (handles0[h].extra - AddressOf(handles0[h].obj)) % WordSize

\* C28 as stated: at the end of every phase, also after the weak check cleared the
\* primary and after relocation, the interior address of a weak interior pointer handle
\* is the address of its primary plus the fixed offset.
C28_AsStated ==
    \A h \in HandleIds :
        handles[h].extra = (AddressOf(handles[h].obj) + FixedOffset(h)) % WordSize

\* C28: at the end of every phase the interior address of a weak interior pointer handle
\* whose primary is not null is the address of the primary plus the fixed offset; the
\* weak check clears the primary of an object that was not promoted and nothing else, so
\* a cleared handle keeps the interior address it had, through relocation too.
C28_InteriorFollowsLivePrimary ==
    \A h \in HandleIds :
        IF handles[h].obj # NULL
        THEN handles[h].extra = (AddressOf(handles[h].obj) + FixedOffset(h)) % WordSize
        ELSE /\ handles0[h].obj \notin promoted
             /\ handles[h].extra = handles0[h].extra

\* The weak check cleared the primary, and the relocation scan has visited the handle.
C28_Witness ==
    \E h \in HandleIds :
        /\ WipPhases[phase] = "done"
        /\ handles0[h].obj # NULL
        /\ handles[h].obj = NULL
        /\ handles[h].nreloc = 1
        /\ handles[h].extra # NULL

----------------------------------------------------------------------------
(* The strong phase in collections of every kind: Ref_TraceNormalRoots with the      *)
(* condemned generation, the oldest generation and IsConcurrentGCInProgress() of the *)
(* collection.                                                                       *)

\* The oldest generation.
MaxGeneration == 1

InitStrong ==
    /\ serverHeap \in BOOLEAN
    /\ GcDirectory
    /\ thread_count \in (IF serverHeap THEN 1 .. MaxRelocThreads ELSE {1})
    /\ handles \in {[h \in HandleIds |-> Tracked(H[h])] : H \in HandleTables(HandleTypes)}
    /\ handles0 = handles
    /\ promoted = {}
    /\ phase = 1
    /\ ran = {}
    /\ scanLog = EmptyLog
    /\ NoDependentScan
    /\ NoRelocation
    /\ NoSync
    /\ concurrent \in BOOLEAN
    /\ refcounted \in {{}, Objects}
    /\ bridge = NoBridges
    /\ collection \in [condemned : 0 .. MaxGeneration, maxgen : {MaxGeneration},
                       inProgress : BOOLEAN]
    /\ NoStart

NormalRootTypeCount_MajorOnly(condemned, maxgen, inProgress) ==
    IF condemned >= maxgen THEN 2 ELSE 1

\* uTypeCount = ((condemned >= maxgen) && !IsConcurrentGCInProgress()) ? 1
\*                                                                     : ARRAY_SIZE(types).
NormalRootTypeCount(condemned, maxgen, inProgress) ==
    IF condemned >= maxgen /\ ~inProgress THEN 1 ELSE 2

\* Worker w runs Ref_TraceNormalRoots(condemned, maxgen, sc, fn) of this collection.
Strong_TraceNormalRoots(w) ==
    /\ ConcPhases[phase] = "Ref_TraceNormalRoots"
    /\ w \in Workers \ ran
    /\ LET result == TraceNormalRootsResult(handles, ScanContextOf(w),
                         NormalRootTypeCount(collection.condemned, collection.maxgen,
                                             collection.inProgress))
       IN /\ handles' = result
          /\ promoted' = promoted \cup ReportedWith(result, {})
    /\ ran' = ran \cup {w}
    /\ scanLog' = Logged(scanLog, ScanVisits(ScanContextOf(w)), w)
    /\ UNCHANGED <<dirVars, notConcVars, serverHeap, handles0, thread_count, phase, dhc,
                   dhw, concVars>>

NextStrong ==
    \/ \E w \in 0 .. (MaxRelocThreads - 1) : Strong_TraceNormalRoots(w)
    \/ ConcBarrier

SpecStrong == InitStrong /\ [][NextStrong]_vars

\* Every worker has returned from the strong phase.
StrongPhaseDone == ConcPhases[phase] # "Ref_TraceNormalRoots"

\* PromoteObject was called for handle h.  A ref-counted handle is reported by
\* PromoteRefCounted, every other handle of this phase by PromoteObject.
PromoteObjectApplied(h) ==
    {} \in handles[h].marks /\ handles[h].type # HNDTYPE_REFCOUNTED

\* The collection condemns every generation.
MajorGC == collection.condemned = collection.maxgen

\* C29 as stated: the strong phase applies the strong promotion to exactly the Strong
\* handles, the CrossReference handles, the Variable handles whose strength is Strong,
\* and the SizedRef handles when the collection is a major one and only then.
C29_AsStated ==
    StrongPhaseDone =>
        \A h \in HandleIds :
            PromoteObjectApplied(h)
                <=> \/ handles[h].type \in {HNDTYPE_STRONG, HNDTYPE_CROSSREFERENCE}
                    \/ handles[h].type = HNDTYPE_VARIABLE /\ handles[h].extra = VHT_STRONG
                    \/ handles[h].type = HNDTYPE_SIZEDREF /\ MajorGC

\* C29: the strong phase applies PromoteObject to exactly the Strong handles, the
\* Variable handles whose strength is Strong, and the SizedRef handles unless the
\* collection condemns the oldest generation while no concurrent collection is in
\* progress; CrossReference handles are not promoted by this phase.
C29_StrongPhaseTypes ==
    StrongPhaseDone =>
        \A h \in HandleIds :
            PromoteObjectApplied(h)
                <=> \/ handles[h].type = HNDTYPE_STRONG
                    \/ handles[h].type = HNDTYPE_VARIABLE /\ handles[h].extra = VHT_STRONG
                    \/ /\ handles[h].type = HNDTYPE_SIZEDREF
                       /\ ~(collection.condemned >= collection.maxgen /\ ~collection.inProgress)

\* A SizedRef handle with an object was promoted by the strong phase of a collection of
\* the young generation.
C29_Witness ==
    \E h \in HandleIds :
        /\ StrongPhaseDone
        /\ handles[h].type = HNDTYPE_SIZEDREF
        /\ handles[h].obj # NULL
        /\ collection.condemned < collection.maxgen
        /\ PromoteObjectApplied(h)
        /\ handles[h].obj \in promoted

----------------------------------------------------------------------------
(* A collection on a directory with no bucket in any slot: the buckets were removed  *)
(* from the directory and are not destroyed yet, so their handles are still there.   *)

\* The directory of GcDirectory after Ref_RemoveHandleTableBucket of both buckets.
EmptiedDirectory ==
    /\ pBuckets = [c \in Chunks |-> EmptySlots]
    /\ dwMaxIndex = [c \in Chunks |->
                      IF c = 0 THEN INITIAL_HANDLE_TABLE_ARRAY_SIZE
                      ELSE IF c = 1 THEN 2 * INITIAL_HANDLE_TABLE_ARRAY_SIZE ELSE 0]
    /\ pNext = [c \in Chunks |-> IF c = 0 THEN 1 ELSE NULL]
    /\ liveChunks = {1}
    /\ HandleTableIndex = [b \in Buckets |->
                      IF b = 0 \/ b > GcBucket THEN 0
                      ELSE IF b = GcBucket THEN INITIAL_HANDLE_TABLE_ARRAY_SIZE ELSE b]
    /\ pTable = [b \in Buckets |->
                      IF b = 0 THEN [n \in CpuRange |-> 0]
                      ELSE IF b = GcBucket THEN [n \in CpuRange |-> INITIAL_HANDLE_TABLE_ARRAY_SIZE]
                      ELSE <<>>]
    /\ bucketState = [b \in Buckets |->
                      IF b \in GcBuckets THEN "removed"
                      ELSE IF b < GcBucket THEN "destroyed" ELSE "unused"]
    /\ thr = [t \in Threads |-> IdleThread]
    /\ nInit = GcBucket
    /\ nRemove = GcBucket + 1

\* The entry points in the order the collector calls them, and its plan in between.
EmptyPhases == <<"Ref_TracePinningRoots", "Ref_TraceNormalRoots", "Ref_CheckAlive",
                 "Ref_ScanDependentHandlesForPromotion", "Ref_CheckReachable",
                 "Ref_ScanDependentHandlesForClearing", "plan", "Ref_UpdatePinnedPointers",
                 "Ref_UpdatePointers", "Ref_ScanDependentHandlesForRelocation",
                 "Ref_ScanWeakInteriorPointersForRelocation", "done">>

\* The entry points that are one scan of the worker's stride.
OneScanEntries == {"Ref_TracePinningRoots", "Ref_TraceNormalRoots", "Ref_CheckAlive",
                   "Ref_CheckReachable", "Ref_ScanDependentHandlesForClearing",
                   "Ref_UpdatePinnedPointers", "Ref_ScanDependentHandlesForRelocation",
                   "Ref_ScanWeakInteriorPointersForRelocation"}

\* The flags of a context of dependent handles after a collection that promoted.
LeftFlags == [m_fUnpromotedPrimaries |-> TRUE, m_fPromoted |-> TRUE]

InitEmpty ==
    /\ serverHeap \in BOOLEAN
    /\ EmptiedDirectory
    /\ thread_count \in (IF serverHeap THEN 1 .. MaxRelocThreads ELSE {1})
    /\ handles \in {[h \in HandleIds |-> Tracked(H[h])] : H \in HandleTables(HandleTypes)}
    /\ handles0 = handles
    /\ promoted = {}
    /\ phase = 1
    /\ ran = {}
    /\ scanLog = EmptyLog
    /\ dhc \in {[n \in CpuRange |-> flags] : flags \in {ClearedFlags, LeftFlags}}
    /\ dhw = [w \in DhWorkers |-> IdleDhWorker]
    /\ NoRelocation
    /\ uCount = 0
    /\ sync = [w \in SyncWorkers |-> EnteringWorker]
    /\ nSync = 0
    /\ gcs = 0
    /\ concurrent = FALSE
    /\ refcounted = {}
    /\ bridge = NoBridges
    /\ collection \in [condemned : 0 .. MaxGeneration, maxgen : {MaxGeneration},
                       inProgress : {FALSE}]
    /\ NoStart

\* The handles after entry point name, called with scan context sc.
EntryResult(name, H, sc) ==
    CASE name = "Ref_TracePinningRoots" -> TracePinningRootsResult(H, sc)
      [] name = "Ref_TraceNormalRoots" ->
            TraceNormalRootsResult(H, sc, NormalRootTypeCount(collection.condemned,
                                              collection.maxgen, collection.inProgress))
      [] name = "Ref_CheckAlive" -> CheckAliveResult(H, sc)
      [] name = "Ref_CheckReachable" -> CheckReachableResult(H, sc)
      [] name = "Ref_ScanDependentHandlesForClearing" -> DhClearingResult(H, sc)
      [] name = "Ref_UpdatePinnedPointers" -> UpdatePinnedPointersResult(H, sc)
      [] name = "Ref_UpdatePointers" -> UpdatePointersResult(H, sc)
      [] name = "Ref_ScanDependentHandlesForRelocation" -> DhRelocationResult(H, sc)
      [] name = "Ref_ScanWeakInteriorPointersForRelocation" ->
            WeakInteriorRelocationResult(H, sc)

\* Worker w runs the entry point of the phase; what the callbacks report reaches the
\* collector.
Empty_Entry(w) ==
    /\ EmptyPhases[phase] \in OneScanEntries
    /\ w \in Workers \ ran
    /\ LET result == EntryResult(EmptyPhases[phase], handles, ScanContextOf(w))
       IN /\ handles' = result
          /\ promoted' = promoted \cup ReportedWith(result, {})
          /\ pinned' = pinned \cup ReportedWith(result, {GC_CALL_PINNED})
    /\ ran' = ran \cup {w}
    /\ scanLog' = Logged(scanLog, ScanVisits(ScanContextOf(w)), w)
    /\ UNCHANGED <<dirVars, serverHeap, handles0, thread_count, phase, dhc, dhw, plan,
                   syncVars, concVars, startVars>>

\* Worker w inside Ref_ScanDependentHandlesForPromotion.
Empty_DhPromotion(w) ==
    /\ EmptyPhases[phase] = "Ref_ScanDependentHandlesForPromotion"
    /\ \/ DhPromotion_Begin(w)
       \/ DhPromotion_EndScan(w)

\* Worker w inside Ref_UpdatePointers.
Empty_UpdatePointers(w) ==
    /\ EmptyPhases[phase] = "Ref_UpdatePointers"
    /\ \/ UpdatePointers_Increment(w)
       \/ UpdatePointers_CompareExchange(w)
       \/ UpdatePointers_Scan(w)

\* The collector makes its plan.
Empty_Plan ==
    /\ EmptyPhases[phase] = "plan"
    /\ plan' = [o \in Objects |-> o + 1]
    /\ phase' = phase + 1
    /\ UNCHANGED <<dirVars, serverHeap, handles, handles0, promoted, thread_count, ran,
                   scanLog, dhc, dhw, pinned, syncVars, concVars, startVars>>

\* Every worker has returned from the entry point: the collector goes on.
Empty_Barrier ==
    /\ EmptyPhases[phase] \notin {"plan", "done"}
    /\ IF EmptyPhases[phase] = "Ref_ScanDependentHandlesForPromotion"
       THEN \A w \in Workers : dhw[w].pc = "returned"
       ELSE ran = Workers
    /\ phase' = phase + 1
    /\ ran' = {}
    /\ scanLog' = EmptyLog
    /\ UNCHANGED <<dirVars, serverHeap, handles, handles0, promoted, thread_count, dhc, dhw,
                   extVars>>

NextEmpty ==
    \/ \E w \in 0 .. (MaxRelocThreads - 1) :
        \/ Empty_Entry(w)
        \/ Empty_DhPromotion(w)
        \/ Empty_UpdatePointers(w)
    \/ Empty_Plan
    \/ Empty_Barrier

SpecEmpty == InitEmpty /\ [][NextEmpty]_vars

\* No callback was called for a handle and none reported anything to the collector.
NoHandleCallback ==
    /\ handles = handles0
    /\ promoted = {}
    /\ pinned = {}
    /\ bridge = NoBridges
    /\ \A p \in Primitives : scanLog[p] = <<>>

PastPhase(name) == \E k \in 1 .. (phase - 1) : EmptyPhases[k] = name

----------------------------------------------------------------------------
(* A collection on the directory Ref_Initialize leaves on a workstation heap: one    *)
(* bucket with one primitive.  The collector's one thread calls each entry point     *)
(* once, with any thread_number and any thread_count in its scan context.            *)

\* The entry points that stride over the primitives, in the order of their calls.
OnePhases == <<"Ref_TracePinningRoots", "Ref_TraceNormalRoots", "Ref_CheckAlive",
               "Ref_CheckReachable", "Ref_ScanDependentHandlesForClearing",
               "Ref_UpdatePinnedPointers", "Ref_ScanDependentHandlesForRelocation",
               "Ref_ScanWeakInteriorPointersForRelocation", "done">>

InitOne ==
    /\ serverHeap = FALSE
    /\ InitDirectory
    /\ thread_count \in 1 .. MaxThreadCount
    /\ handles \in {[h \in HandleIds |-> Tracked(H[h])] :
                        H \in {G \in HandleTables(HandleTypes) :
                                  \A h \in HandleIds : G[h].bucket = 0 /\ G[h].cpu = 0}}
    /\ handles0 = handles
    /\ promoted = {}
    /\ phase = 1
    /\ ran = {}
    /\ scanLog = EmptyLog
    /\ NoDependentScan
    /\ NoRelocation
    /\ NoSync
    /\ concurrent = FALSE
    /\ refcounted = {}
    /\ bridge = NoBridges
    /\ collection = [condemned |-> 0, maxgen |-> MaxGeneration, inProgress |-> FALSE]
    /\ NoStart

\* The scan context of a call: thread_number n, and the thread_count of the collection.
OneContext(n) == [thread_number |-> n, thread_count |-> thread_count, concurrent |-> concurrent]

\* The collector's thread calls the entry point of the phase with thread_number n.
One_Entry(n) ==
    /\ OnePhases[phase] # "done"
    /\ ran = {}
    /\ LET result == EntryResult(OnePhases[phase], handles, OneContext(n))
       IN /\ handles' = result
          /\ promoted' = IF plan = <<>> THEN promoted \cup ReportedWith(result, {}) ELSE promoted
          /\ pinned' = pinned \cup ReportedWith(result, {GC_CALL_PINNED})
    /\ ran' = {n}
    /\ scanLog' = Logged(scanLog, ScanVisits(OneContext(n)), n)
    /\ UNCHANGED <<dirVars, serverHeap, handles0, thread_count, phase, dhc, dhw, plan,
                   syncVars, concVars, startVars>>

\* The call has returned: the collector goes on, with its plan before the first
\* relocation entry point.
One_Advance ==
    /\ OnePhases[phase] # "done"
    /\ ran # {}
    /\ phase' = phase + 1
    /\ ran' = {}
    /\ scanLog' = EmptyLog
    /\ plan' = IF OnePhases[phase + 1] = "Ref_UpdatePinnedPointers"
               THEN [o \in Objects |-> o + 1] ELSE plan
    /\ UNCHANGED <<dirVars, serverHeap, handles, handles0, promoted, thread_count, dhc, dhw,
                   pinned, syncVars, concVars, startVars>>

NextOne ==
    \/ \E n \in 0 .. MaxThreadCount : One_Entry(n)
    \/ One_Advance

\* A call that has begun goes on, and the collector goes from one call to the next.
SpecOne == InitOne /\ [][NextOne]_vars /\ WF_vars(NextOne)

----------------------------------------------------------------------------
(* One phase run twice in a row: nothing happens between the two runs, the oracle    *)
(* and the relocation callback answer the second time as they did the first.         *)

\* The phases that are run twice.
TwicePhases == <<"Ref_CheckAlive", "Ref_CheckReachable", "Ref_ScanDependentHandlesForClearing",
                 "Ref_UpdatePinnedPointers", "Ref_UpdatePointers",
                 "Ref_ScanDependentHandlesForRelocation",
                 "Ref_ScanWeakInteriorPointersForRelocation">>

\* The phases that call the relocation callback.
RelocationPhases == {"Ref_UpdatePinnedPointers", "Ref_UpdatePointers",
                     "Ref_ScanDependentHandlesForRelocation",
                     "Ref_ScanWeakInteriorPointersForRelocation"}

InitTwice ==
    /\ serverHeap \in BOOLEAN
    /\ GcDirectory
    /\ thread_count = 1
    /\ handles \in {[h \in HandleIds |-> Tracked(H[h])] : H \in HandleTables(HandleTypes)}
    /\ handles0 = handles
    /\ promoted \in SUBSET Objects
    /\ phase \in DOMAIN TwicePhases
    /\ ran = {}
    /\ scanLog = EmptyLog
    /\ NoDependentScan
    /\ pinned = {}
    /\ plan \in Plans
    /\ NoSync
    /\ NoConcurrency
    /\ NoStart

\* The runs of the phase so far: the scans that reached the first primitive.
Runs == Len(scanLog[<<0, 0>>])

\* One run of the phase by the one thread of the collection.
Twice_Run ==
    /\ Runs < 2
    /\ handles' = EntryResult(TwicePhases[phase], handles, WholeScan)
    /\ scanLog' = Logged(scanLog, ScanVisits(WholeScan), 0)
    /\ UNCHANGED <<dirVars, extVars, serverHeap, handles0, promoted, thread_count, phase, ran,
                   dhc, dhw>>

NextTwice == Twice_Run

SpecTwice == InitTwice /\ [][NextTwice]_vars

\* The contents of the handles: object and extra info.
Contents(H) == [h \in DOMAIN H |-> <<H[h].obj, H[h].extra>>]

\* C32 as stated: the second of two runs of the same phase, weak check, dependent clear
\* or relocation, leaves the contents of every handle as the first run left them.
C32_AsStated ==
    [][Runs = 1 => Contents(handles') = Contents(handles)]_vars

\* The relocation callback leaves the addresses in handle h where they are.
Settled(h) ==
    /\ Relocate(handles[h].obj) = handles[h].obj
    /\ handles[h].type = HNDTYPE_DEPENDENT => Relocate(handles[h].extra) = handles[h].extra

\* C32: the second of two runs of a weak check or of the dependent clear leaves the
\* contents of every handle as the first run left them; the second run of a relocation
\* phase calls the relocation callback again on the address the first run stored, and
\* leaves the contents (the interior pointer too) of the handles whose addresses the
\* callback does not move again.
C32_SecondRunChangesOnlyMoved ==
    [][Runs = 1 =>
          \A h \in HandleIds :
              (TwicePhases[phase] \notin RelocationPhases \/ Settled(h))
                  => Contents(handles')[h] = Contents(handles)[h]]_vars

\* Two runs of the weak interior pointer relocation on a handle whose object the first
\* run moved to an address the callback does not move.
C32_Witness ==
    /\ Runs = 2
    /\ TwicePhases[phase] = "Ref_ScanWeakInteriorPointersForRelocation"
    /\ \E h \in HandleIds :
          /\ handles[h].type = HNDTYPE_WEAK_INTERIOR_POINTER
          /\ handles[h].nreloc = 2
          /\ handles[h].obj # handles0[h].obj
          /\ Settled(h)

----------------------------------------------------------------------------
(* Ref_ScanDependentHandlesForPromotion called a second time by the one thread of a  *)
(* collection, after a call that ended with m_fPromoted false; nothing happens       *)
(* between the two calls (phase counts the calls that are over).                     *)

InitDhAgain ==
    /\ InitDh
    /\ thread_count = 1

\* The collector calls again after a call that ended with m_fPromoted false.
DhAgain_SecondCall ==
    /\ phase = 0
    /\ dhw[0].pc = "returned"
    /\ ~dhc[Ref_GetDependentHandleContext(ScanContextOf(0))].m_fPromoted
    /\ dhw' = [dhw EXCEPT ![0] = IdleDhWorker]
    /\ phase' = 1
    /\ UNCHANGED <<dirVars, extVars, serverHeap, handles, handles0, promoted, thread_count,
                   ran, scanLog, dhc>>

NextDhAgain ==
    \/ DhPromotion_Begin(0)
    \/ \E h \in DhHandleIds : PromoteDependentHandle_Check(0, h)
    \/ PromoteDependentHandle_Promote(0)
    \/ DhPromotion_EndScan(0)
    \/ DhAgain_SecondCall

SpecDhAgain == InitDhAgain /\ [][NextDhAgain]_vars

\* The flags a scan that promotes nothing leaves: whether it met a primary that is
\* there and not promoted, and no promotion.
QuietFlags ==
    [m_fUnpromotedPrimaries |->
        \E h \in StrideHandles(0) : handles[h].obj # NULL /\ ~IsPromoted(handles[h].obj),
     m_fPromoted |-> FALSE]

\* C33: when a call of Ref_ScanDependentHandlesForPromotion has ended with m_fPromoted
\* false and is followed by a second call with nothing in between, the second call
\* promotes nothing and changes no handle, returns false, and ends with both flags of
\* the context as the first call left them: no promotion, and unpromoted primaries
\* noted if and only if the table, which is the same, has one.
C33_SecondCallChangesNothing ==
    /\ [][phase = 1 => promoted' = promoted /\ handles' = handles]_vars
    /\ []((dhw[0].pc = "returned" /\ phase = 1) =>
              /\ ~dhw[0].ret
              /\ ~dhw[0].called
              /\ dhc[Ref_GetDependentHandleContext(ScanContextOf(0))] = QuietFlags)
    /\ []((dhw[0].pc = "returned" /\ phase = 0
              /\ ~dhc[Ref_GetDependentHandleContext(ScanContextOf(0))].m_fPromoted) =>
              dhc[Ref_GetDependentHandleContext(ScanContextOf(0))] = QuietFlags)

\* The second call has returned from a table with a chain the first call promoted and a
\* handle whose primary is not promoted.
C33_Witness ==
    /\ phase = 1
    /\ dhw[0].pc = "returned"
    /\ dhc[Ref_GetDependentHandleContext(ScanContextOf(0))].m_fUnpromotedPrimaries
    /\ \E h, g \in DhHandleIds :
        /\ handles[h].obj \in promoted
        /\ handles[h].extra \in promoted
        /\ handles[g].obj \notin promoted \cup {NULL}
        /\ handles[g].extra \notin promoted \cup {NULL}

----------------------------------------------------------------------------
(* One call of Ref_ScanDependentHandlesForPromotion on a chain of two Dependent      *)
(* handles (P1, S1) and (S1, S2) of three objects, of which P1 alone is promoted.    *)

\* Handle h is (P1, S1) and handle g is (S1, S2) in table H, which has no other
\* dependent handle with a primary.
ChainOf(H, h, g) ==
    /\ h # g
    /\ \A k \in DhHandleIds \ {h, g} : H[k].obj = NULL
    /\ H[h].obj # NULL
    /\ H[h].extra # NULL
    /\ H[g].obj = H[h].extra
    /\ H[g].extra \notin {NULL, H[h].obj, H[h].extra}
    /\ H[h].obj # H[h].extra

InitChain ==
    /\ InitDh
    /\ thread_count = 1
    /\ \E h, g \in DhHandleIds : ChainOf(handles, h, g) /\ promoted = {handles[h].obj}

NextChain ==
    \/ DhPromotion_Begin(0)
    \/ \E h \in DhHandleIds : PromoteDependentHandle_Check(0, h)
    \/ PromoteDependentHandle_Promote(0)
    \/ DhPromotion_EndScan(0)

SpecChain == InitChain /\ [][NextChain]_vars

\* The context of the one thread.
ChainContext == dhc[Ref_GetDependentHandleContext(ScanContextOf(0))]

\* C34 as stated: the call ends with S1 and S2 promoted, returns true, and has run its
\* loop body at least twice, in whatever order the scan visits the two handles.
C34_AsStated ==
    dhw[0].pc = "returned" =>
        \A h, g \in DhHandleIds :
            ChainOf(handles, h, g) =>
                /\ {handles[h].extra, handles[g].extra} \subseteq promoted
                /\ dhw[0].ret
                /\ dhw[0].iters >= 2

\* C34: the call ends with S1 and S2 promoted and returns true in whatever order the
\* scan visits the two handles.  The loop body runs twice when the scan visits (S1, S2)
\* first: it then notes an unpromoted primary, and scans again after promoting S1.  It
\* runs once when the scan visits (P1, S1) first: S1 is promoted when (S1, S2) is
\* visited, no unpromoted primary is noted, and the loop ends.
C34_ChainPromoted ==
    \A h, g \in DhHandleIds :
        ChainOf(handles, h, g) =>
            /\ dhw[0].pc = "returned" =>
                  /\ {handles[h].extra, handles[g].extra} \subseteq promoted
                  /\ dhw[0].ret
                  /\ dhw[0].iters \in {1, 2}
                  /\ dhw[0].iters = 1 => ~ChainContext.m_fUnpromotedPrimaries
            /\ (dhw[0].iters = 1 /\ dhw[0].pc = "scan" /\ dhw[0].visited = {g}) =>
                  ChainContext.m_fUnpromotedPrimaries
            /\ (dhw[0].iters = 1 /\ dhw[0].pc = "scan" /\ dhw[0].visited = {h}) =>
                  ~ChainContext.m_fUnpromotedPrimaries

\* The call has returned true from its first iteration: it visited (P1, S1), then
\* (S1, S2), and promoted both secondaries.
C34_Witness ==
    /\ dhw[0].pc = "returned"
    /\ dhw[0].iters = 1
    /\ dhw[0].ret
    /\ ChainContext.m_fPromoted
    /\ \E h, g \in DhHandleIds :
        /\ ChainOf(handles, h, g)
        /\ {handles[h].obj, handles[h].extra, handles[g].extra} \subseteq promoted

----------------------------------------------------------------------------
(* The strong phase and the long-weak check of one collection, with the changes of   *)
(* strength the mutator makes between the two.                                        *)

CyclePhases == <<"Ref_TraceNormalRoots", "Ref_CheckReachable", "done">>

\* The types the two entry points scan, and a type neither scans.
CycleTypes == NormalRootTypes(2) \cup CheckReachableTypes \cup {HNDTYPE_REFCOUNTED, HNDTYPE_VARIABLE,
                                                                HNDTYPE_WEAK_SHORT}

InitCycle ==
    /\ serverHeap \in BOOLEAN
    /\ GcDirectory
    /\ thread_count \in (IF serverHeap THEN 1 .. MaxRelocThreads ELSE {1})
    /\ handles \in {[h \in HandleIds |-> Tracked(H[h])] : H \in HandleTables(CycleTypes)}
    /\ handles0 = handles
    /\ promoted \in SUBSET Objects
    /\ phase = 1
    /\ ran = {}
    /\ scanLog = EmptyLog
    /\ NoDependentScan
    /\ NoRelocation
    /\ NoSync
    /\ concurrent \in BOOLEAN
    /\ refcounted \in SUBSET Objects
    /\ bridge = NoBridges
    /\ collection \in [condemned : 0 .. MaxGeneration, maxgen : {MaxGeneration},
                       inProgress : {FALSE}]
    /\ NoStart

\* The mutator exchanges the strength of Variable handle h after every worker has left
\* the strong phase and before one enters the long-weak check.
Cycle_CompareExchange(h) ==
    /\ CyclePhases[phase] = "Ref_CheckReachable"
    /\ ran = {}
    /\ \E oldType, newType \in VariableHandleTypes :
           CompareExchangeVariableHandleType(h, oldType, newType)

\* Every worker has returned from the long-weak check.
Cycle_End ==
    /\ CyclePhases[phase] = "Ref_CheckReachable"
    /\ ran = Workers
    /\ phase' = phase + 1
    /\ ran' = {}
    /\ scanLog' = EmptyLog
    /\ UNCHANGED <<dirVars, extVars, serverHeap, handles, handles0, promoted, thread_count, dhc, dhw>>

NextCycle ==
    \/ \E w \in 0 .. (MaxRelocThreads - 1) : Strong_TraceNormalRoots(w)
    \/ ConcBarrier
    \/ \E h \in HandleIds : Cycle_CompareExchange(h)
    \/ \E w \in 0 .. (MaxRelocThreads - 1) : Ref_CheckReachable(w)
    \/ Cycle_End

SpecCycle == InitCycle /\ [][NextCycle]_vars

CycleDone == CyclePhases[phase] = "done"

\* No object of the table was promoted before the collection.
InitFlip ==
    /\ InitCycle
    /\ \A h \in HandleIds : handles[h].obj \notin promoted

SpecFlip == InitFlip /\ [][NextCycle]_vars

\* Variable handle h was Strong in the strong phase, refers to an object that no other
\* handle refers to, and is WeakLong since the exchange.
Flipped(h) ==
    /\ handles[h].type = HNDTYPE_VARIABLE
    /\ handles0[h].extra = VHT_STRONG
    /\ handles[h].extra = VHT_WEAK_LONG
    /\ handles0[h].obj # NULL
    /\ \A g \in HandleIds \ {h} : handles0[g].obj # handles0[h].obj

\* C35 as stated: a Variable handle that was Strong in the strong phase, refers to an
\* object nothing else promotes, and is WeakLong at the long-weak check, reads null at the
\* end of the cycle.
C35_AsStated ==
    CycleDone => \A h \in HandleIds : Flipped(h) => handles[h].obj = NULL

\* C35: a Variable handle that was Strong in the strong phase, refers to an object
\* nothing else promotes, and is WeakLong at the long-weak check, is checked as a weak
\* handle by the long-weak check and keeps its object at the end of the cycle: the strong
\* phase has called PromoteObject for it, so CheckPromoted finds the object promoted.
C35_FlippedKeepsPromoted ==
    CycleDone =>
        \A h \in HandleIds :
            Flipped(h) =>
                /\ BitsIntersect(handles[h].extra, VHT_WEAK_LONG)
                /\ PromoteObjectApplied(h)
                /\ handles0[h].obj \in promoted
                /\ handles[h].obj = handles0[h].obj
                /\ CheckPromoted(handles[h]) = handles[h]

\* The cycle has ended with a Variable handle that was exchanged from Strong to WeakLong
\* and has kept its object.
C35_Witness ==
    /\ CycleDone
    /\ \E h \in HandleIds :
        /\ Flipped(h)
        /\ handles[h].obj # NULL
        /\ scanLog = EmptyLog

----------------------------------------------------------------------------
(* Ref_NullBridgeObjectsWeakRefs: the weak handles to the bridge objects the host     *)
(* found unreachable are nulled.                                                      *)

NumBridgeHandles == 2

MaxUnreachable == 2

BridgeHandleIds == 1 .. NumBridgeHandles

BridgeTypes == {HNDTYPE_WEAK_SHORT, HNDTYPE_WEAK_LONG, HNDTYPE_CROSSREFERENCE, HNDTYPE_STRONG}

NullBridgeTypes_ShortOnly == {HNDTYPE_WEAK_SHORT}

\* uint32_t handleType[] = { HNDTYPE_WEAK_SHORT, HNDTYPE_WEAK_LONG }.
NullBridgeTypes == {HNDTYPE_WEAK_SHORT, HNDTYPE_WEAK_LONG}

BridgeTables ==
    [BridgeHandleIds -> [type : BridgeTypes, bucket : GcBuckets, cpu : CpuRange,
                         obj : Objects \cup {NULL}, extra : {0}]]

\* The arrays of handles the host passes: handles of its bridge objects, which are
\* cross-reference handles.
UnreachableArrays(H) ==
    UNION {[1 .. n -> {h \in BridgeHandleIds : H[h].type = HNDTYPE_CROSSREFERENCE}] :
              n \in 0 .. MaxUnreachable}

InitBridge ==
    /\ serverHeap \in BOOLEAN
    /\ GcDirectory
    /\ thread_count = 1
    /\ handles \in BridgeTables
    /\ handles0 = handles
    /\ promoted = {}
    /\ phase = 1
    /\ ran = {}
    /\ scanLog = EmptyLog
    /\ NoDependentScan
    /\ NoRelocation
    /\ NoSync
    /\ concurrent = FALSE
    /\ refcounted = {}
    /\ \E arr \in UnreachableArrays(handles) :
        \E length \in 0 .. Len(arr) :
            bridge = [registered |-> {}, triggered |-> {}, unreachable |-> arr, length |-> length]
    /\ collection = <<>>
    /\ NoStart

RECURSIVE NullBridgeObjectWeakRef(_, _, _, _, _, _)
\* NullBridgeObjectWeakRef(handle, pExtraInfo, param1, param2) from index i of its loop on:
\* weakRef was read from the handle before the loop, bridgeRef is read through the i-th
\* handle of the array at each turn.
NullBridgeObjectWeakRef(H, handle, weakRef, i, length, bridgeHandleArray) ==
    IF i > length THEN H
    ELSE LET bridgeRef == H[bridgeHandleArray[i]].obj
         IN NullBridgeObjectWeakRef(
                IF weakRef = bridgeRef THEN [H EXCEPT ![handle].obj = NULL] ELSE H,
                handle, weakRef, i + 1, length, bridgeHandleArray)

RECURSIVE EnumBridgeHandles(_, _, _, _, _)
\* HndEnumHandles on primitive hTable with the callback NullBridgeObjectWeakRef, from
\* handle h on.
EnumBridgeHandles(H, hTable, h, length, arr) ==
    IF h > NumBridgeHandles THEN H
    ELSE EnumBridgeHandles(
             IF <<H[h].bucket, H[h].cpu>> = hTable /\ H[h].type \in NullBridgeTypes
             THEN NullBridgeObjectWeakRef(H, h, H[h].obj, 1, length, arr)
             ELSE H,
             hTable, h + 1, length, arr)

RECURSIVE NullBridgeWalk(_, _, _, _, _)
\* The walk of Ref_NullBridgeObjectsWeakRefs from the k-th primitive on: every slot j below
\* max_slots of every bucket of every chunk.
NullBridgeWalk(H, visits, k, length, arr) ==
    IF k > Len(visits) THEN H
    ELSE NullBridgeWalk(EnumBridgeHandles(H, visits[k], 1, length, arr), visits, k + 1,
                        length, arr)

Ref_NullBridgeObjectsWeakRefs ==
    /\ phase = 1
    /\ handles' = NullBridgeWalk(handles, AllVisits, 1, bridge.length, bridge.unreachable)
    /\ phase' = 2
    /\ UNCHANGED <<dirVars, extVars, serverHeap, handles0, promoted, thread_count, ran, scanLog,
                   dhc, dhw>>

NextBridge == Ref_NullBridgeObjectsWeakRefs

SpecBridge == InitBridge /\ [][NextBridge]_vars

\* The objects the first length handles of the array referred to at the call.
UnreachableObjects ==
    {handles0[bridge.unreachable[i]].obj : i \in 1 .. bridge.length}

\* C36: after Ref_NullBridgeObjectsWeakRefs(length, unreachable), every WeakShort and
\* WeakLong handle, in whatever primitive of whatever bucket, whose referent was one of
\* the objects the handles of the array refer to reads null, and every other handle
\* (of another type, or weak with another referent) is as it was.
C36_WeakRefsToUnreachableNulled ==
    phase = 2 =>
        \A h \in BridgeHandleIds :
            IF handles0[h].type \in {HNDTYPE_WEAK_SHORT, HNDTYPE_WEAK_LONG}
               /\ handles0[h].obj \in UnreachableObjects
            THEN handles[h] = [handles0[h] EXCEPT !.obj = NULL]
            ELSE handles[h] = handles0[h]

\* The call has nulled a WeakLong handle of a primitive other than the first to an
\* object of the array, and has left a handle that refers to the same object.
C36_Witness ==
    /\ phase = 2
    /\ \E h, g \in BridgeHandleIds :
        /\ handles0[h].type = HNDTYPE_WEAK_LONG
        /\ <<handles0[h].bucket, handles0[h].cpu>> # <<0, 0>>
        /\ handles0[h].obj # NULL
        /\ handles[h].obj = NULL
        /\ handles[g].obj = handles0[h].obj

----------------------------------------------------------------------------
(* The ref-counted handles in the strong phase and the long-weak check (SpecCycle).  *)

\* Object o was promoted before the collection's strong phase (P), or the strong phase
\* has called PromoteObject for a handle that refers to it.
AlreadyPromoted(o, P) ==
    o \in P \/ \E g \in HandleIds : PromoteObjectApplied(g) /\ handles0[g].obj = o

\* C37: in a collection that is not concurrent, after the strong phase and the long-weak
\* check, a RefCounted handle whose referent was there keeps its referent if and only
\* if the referent was already promoted or RefCountedHandleCallbacks answered true for
\* it; the promote callback was called for the handle in the second case and in no case
\* where the answer was false or the referent was promoted before the collection; a
\* handle that does not keep its referent has a null slot.
C37_RefCountedKeptIffLive ==
    \A P \in SUBSET Objects :
        (promoted = P) =>
            []((CycleDone /\ ~concurrent) =>
                  \A h \in HandleIds :
                      (handles0[h].type = HNDTYPE_REFCOUNTED
                         /\ handles0[h].obj \notin {NULL, Destroyed}) =>
                          LET o == handles0[h].obj
                          IN /\ handles[h].obj = o <=> (AlreadyPromoted(o, P) \/ o \in refcounted)
                             /\ handles[h].obj \in {o, NULL}
                             /\ (~AlreadyPromoted(o, P) /\ o \in refcounted) => {} \in handles[h].marks
                             /\ (o \in P \/ o \notin refcounted) => handles[h].marks = {})

\* A collection that is not concurrent has ended; the RefCounted handle has kept a
\* referent that only the answer of RefCountedHandleCallbacks kept alive.
C37_Witness ==
    /\ CycleDone
    /\ ~concurrent
    /\ \E h \in HandleIds :
        /\ handles0[h].type = HNDTYPE_REFCOUNTED
        /\ handles[h].obj \in refcounted
        /\ handles[h].marks = {{}}
        /\ promoted = {handles[h].obj}

\* A collection that is not concurrent has ended; the long-weak check has cleared a
\* RefCounted handle whose referent was not promoted and not kept alive by the host.
C37_WitnessCleared ==
    /\ CycleDone
    /\ ~concurrent
    /\ \E h \in HandleIds :
        /\ handles0[h].type = HNDTYPE_REFCOUNTED
        /\ handles0[h].obj \notin refcounted \cup {NULL}
        /\ handles[h].obj = NULL

----------------------------------------------------------------------------
(* The dependent handles of a collection: the rounds of                               *)
(* Ref_ScanDependentHandlesForPromotion until no worker returns true, then            *)
(* Ref_ScanDependentHandlesForClearing.                                               *)

\* No worker has promoted in the last round: the promotion of dependent handles is over.
PromotionOver == \A w \in Workers : dhw[w].pc = "returned" /\ ~dhw[w].ret

\* Worker w runs Ref_ScanDependentHandlesForClearing(condemned, maxgen, sc).
Unp_Clearing(w) ==
    /\ PromotionOver
    /\ w \in Workers \ ran
    /\ handles' = DhClearingResult(handles, ScanContextOf(w))
    /\ ran' = ran \cup {w}
    /\ scanLog' = Logged(scanLog, ScanVisits(ScanContextOf(w)), w)
    /\ UNCHANGED <<dirVars, extVars, serverHeap, handles0, promoted, thread_count, phase, dhc, dhw>>

NextUnp ==
    \/ \E w \in DhWorkers :
        \/ DhPromotion_Begin(w)
        \/ \E h \in DhHandleIds : PromoteDependentHandle_Check(w, h)
        \/ PromoteDependentHandle_Promote(w)
        \/ DhPromotion_EndScan(w)
        \/ Unp_Clearing(w)
    \/ DhPromotion_NextRound

SpecUnp == InitDh /\ [][NextUnp]_vars

\* The primary of handle h is there and not promoted.
UnpromotedPrimary(h) == handles[h].obj # NULL /\ ~IsPromoted(handles[h].obj)

\* C38: the scan calls the promote callback only for the secondary of a handle whose
\* primary is there and promoted at the visit.  When a worker returns from
\* Ref_ScanDependentHandlesForPromotion, it returns true exactly if its scan called the
\* promote callback, and m_fUnpromotedPrimaries is set in its context if a handle of its
\* primitives has a primary that is still not promoted.  After the clearing pass a handle
\* whose primary was there and has stayed unpromoted reads null in both slots.
C38_UnpromotedPrimaryNeverPromotes ==
    /\ [][\A w \in DhWorkers :
            /\ (w \in Workers /\ dhw'[w].pc = "promote" /\ dhw[w].pc # "promote") =>
                   /\ handles[dhw'[w].cur].obj # NULL
                   /\ IsPromoted(handles[dhw'[w].cur].obj)
            /\ promoted' # promoted =>
                   \E v \in Workers :
                       /\ dhw[v].pc = "promote"
                       /\ ~UnpromotedPrimary(dhw[v].cur)
                       /\ promoted \cup {handles[dhw[v].cur].extra} \subseteq promoted']_vars
    /\ [](\A w \in Workers :
             dhw[w].pc = "returned" =>
                 /\ dhw[w].ret = dhw[w].called
                 /\ \A h \in StrideHandles(w) :
                        UnpromotedPrimary(h) =>
                            dhc[Ref_GetDependentHandleContext(ScanContextOf(w))].m_fUnpromotedPrimaries)
    /\ []((PromotionOver /\ ran = Workers) =>
             \A h \in DhHandleIds :
                 (handles0[h].obj # NULL /\ ~IsPromoted(handles0[h].obj)) =>
                     handles[h].obj = NULL /\ handles[h].extra = NULL)

\* The only round of the promotion scan has returned false with m_fUnpromotedPrimaries
\* set and without a call of the promote callback, and the clearing pass has nulled both
\* slots of a handle (P, S) whose secondary has stayed unpromoted as well.
C38_Witness ==
    /\ PromotionOver
    /\ ran = Workers
    /\ phase = 0
    /\ \A w \in Workers : ~dhw[w].called
    /\ \E w \in Workers : dhc[Ref_GetDependentHandleContext(ScanContextOf(w))].m_fUnpromotedPrimaries
    /\ \E h \in DhHandleIds :
        /\ handles0[h].obj # NULL
        /\ handles0[h].extra \notin promoted \cup {NULL}
        /\ handles[h].obj = NULL
        /\ handles[h].extra = NULL

----------------------------------------------------------------------------
(* The contexts of the workers that scan dependent handles concurrently (SpecDh).     *)

\* The element of g_pDependentHandleContexts worker w uses.
ContextIndex(w) == Ref_GetDependentHandleContext(ScanContextOf(w))

\* Worker w is inside Ref_ScanDependentHandlesForPromotion or has returned from it.
InScan(w) == w \in Workers /\ dhw[w].pc # "idle"

\* C39: in server mode, workers with distinct thread_number use distinct elements of the
\* array of contexts: the element of a worker is the one at index thread_number, below
\* the length of the array (the number of slots) as thread_count is at most the number of
\* slots.  A step changes the flags of an element only if it is a step of the worker
\* with that thread_number, and of no other worker.  The flags of a worker's element are
\* those its own callbacks set: m_fPromoted only if its scan called the promote callback,
\* and m_fUnpromotedPrimaries exactly if it has visited, since the flags were cleared, a
\* handle whose primary was there and not promoted.
C39_OwnContextOnly ==
    /\ [](serverHeap =>
             /\ thread_count <= getNumberOfSlots
             /\ \A w \in Workers :
                    /\ ContextIndex(w) = w
                    /\ ContextIndex(w) \in DOMAIN dhc
                    /\ \A v \in Workers \ {w} : ContextIndex(v) # ContextIndex(w))
    /\ [][serverHeap =>
             \A n \in DOMAIN dhc :
                 dhc'[n] # dhc[n] =>
                     /\ n \in Workers
                     /\ dhw'[n] # dhw[n]
                     /\ \A v \in DhWorkers \ {n} : dhw'[v] = dhw[v]]_vars
    /\ [](serverHeap =>
             \A w \in Workers :
                 InScan(w) =>
                     /\ dhc[w].m_fPromoted => dhw[w].called
                     /\ dhc[w].m_fUnpromotedPrimaries =>
                            \E h \in dhw[w].visited \cap StrideHandles(w) : handles[h].obj # NULL
                     /\ \A h \in dhw[w].visited \cap StrideHandles(w) :
                            UnpromotedPrimary(h) => dhc[w].m_fUnpromotedPrimaries)

\* Two workers of a server collection are in their scans at the same time, one with
\* m_fPromoted set and m_fUnpromotedPrimaries clear, the other the other way round.
C39_Witness ==
    /\ serverHeap
    /\ thread_count = 2
    /\ dhw[0].pc = "scan"
    /\ dhw[1].pc = "scan"
    /\ dhc[0].m_fPromoted
    /\ ~dhc[0].m_fUnpromotedPrimaries
    /\ ~dhc[1].m_fPromoted
    /\ dhc[1].m_fUnpromotedPrimaries

====
